---- MODULE Spec2Model ----
(***************************************************************************)
(* Vocabulary trainer: the JSON file store, the /api/vocabulary and        *)
(* /api/topics handlers, the quiz question generator and the text answer   *)
(* checker of /api/quiz.                                                   *)
(*                                                                         *)
(* A JavaScript string is a sequence of characters, each character a       *)
(* one-character string: "cat" is <<"c", "a", "t">>.  The value undefined  *)
(* (a field missing from a request body or from a stored record) is UNDEF. *)
(***************************************************************************)
EXTENDS Integers, Sequences, FiniteSets, TLC

VARIABLES
    file,   \* data/vocabulary.json: does it parse, and the array it holds
    req,    \* the request (or call) handled last; in SpecRace, the requests
            \* in flight
    res     \* the response (or return value) to it; in SpecRace, to each

vars == <<file, req, res>>

---------------------------------------------------------------------------
(* Bounds of the model. *)

\* The store holds at most MaxRecords records (POST is not taken beyond it).
MaxRecords == 3

\* Ids stay within 1..MaxId (POST is not taken when the next id exceeds it).
MaxId == 3

---------------------------------------------------------------------------
(* JavaScript values and string functions. *)

UNDEF == <<"undefined">>

\* !x for a string or a missing value
Falsy(x) == x = UNDEF \/ x = <<>>

\* \s of the regular expressions and the white space String.trim and
\* parseInt remove: space, tab, line feed, carriage return, form feed and
\* the no-break space (the other Unicode spaces are in no input here)
IsSpace(c) == c \in {" ", "\t", "\n", "\r", "\f", " "}

UpperCase ==
    <<"A", "B", "C", "D", "E", "F", "G", "H", "I", "J", "K", "L", "M",
      "N", "O", "P", "Q", "R", "S", "T", "U", "V", "W", "X", "Y", "Z", "È">>

LowerCase ==
    <<"a", "b", "c", "d", "e", "f", "g", "h", "i", "j", "k", "l", "m",
      "n", "o", "p", "q", "r", "s", "t", "u", "v", "w", "x", "y", "z", "è">>

\* the lower-case mapping of a character: A-Z and È have one, every other
\* character of the inputs maps to itself
toLowerCaseChar(c) ==
    IF \E i \in DOMAIN UpperCase : UpperCase[i] = c
    THEN LowerCase[CHOOSE i \in DOMAIN UpperCase : UpperCase[i] = c]
    ELSE c

\* String.prototype.toLowerCase
toLowerCase(s) == [i \in DOMAIN s |-> toLowerCaseChar(s[i])]

RECURSIVE trimStart(_)
trimStart(s) ==
    IF s # <<>> /\ IsSpace(Head(s)) THEN trimStart(Tail(s)) ELSE s

RECURSIVE trimEnd(_)
trimEnd(s) ==
    IF s # <<>> /\ IsSpace(s[Len(s)])
    THEN trimEnd(SubSeq(s, 1, Len(s) - 1))
    ELSE s

\* String.prototype.trim
trim(s) == trimEnd(trimStart(s))

\* String.prototype.includes
includes(s, t) ==
    \E k \in 0..(Len(s) - Len(t)) : SubSeq(s, k + 1, k + Len(t)) = t

\* NaN, as an integer that no string of the inputs denotes and that equals
\* no stored id
NaN == -2147483647

\* the value of a digit parseInt reads in the given radix, -1 for any other
\* character
DigitValue(c, radix) ==
    LET value ==
            CASE c = "0" -> 0 [] c = "1" -> 1 [] c = "2" -> 2 [] c = "3" -> 3
              [] c = "4" -> 4 [] c = "5" -> 5 [] c = "6" -> 6 [] c = "7" -> 7
              [] c = "8" -> 8 [] c = "9" -> 9
              [] c \in {"a", "A"} -> 10 [] c \in {"b", "B"} -> 11
              [] c \in {"c", "C"} -> 12 [] c \in {"d", "D"} -> 13
              [] c \in {"e", "E"} -> 14 [] c \in {"f", "F"} -> 15
              [] OTHER -> -1
    IN  IF value < radix THEN value ELSE -1

RECURSIVE parseDigits(_, _, _)
parseDigits(s, radix, acc) ==
    IF s = <<>> \/ DigitValue(Head(s), radix) < 0
    THEN acc
    ELSE parseDigits(Tail(s), radix, radix * acc + DigitValue(Head(s), radix))

\* parseInt(string) without a radix: leading white space is skipped, a sign
\* is read, a 0x or 0X prefix selects radix 16 (10 otherwise), the longest
\* prefix of digits of the radix is read, and the result is NaN when there
\* is none.
parseInt(s) ==
    LET t == trimStart(s)
        signed == t # <<>> /\ Head(t) \in {"+", "-"}
        sign == IF t # <<>> /\ Head(t) = "-" THEN -1 ELSE 1
        u == IF signed THEN Tail(t) ELSE t
        hex == Len(u) >= 2 /\ u[1] = "0" /\ u[2] \in {"x", "X"}
        radix == IF hex THEN 16 ELSE 10
        digits == IF hex THEN Tail(Tail(u)) ELSE u
    IN  IF digits = <<>> \/ DigitValue(Head(digits), radix) < 0
        THEN NaN
        ELSE sign * parseDigits(digits, radix, 0)

\* Array.prototype.filter: the elements that pass, in their order
filter(seq, Keep(_)) == SelectSeq(seq, Keep)

---------------------------------------------------------------------------
(* The record store. *)

\* a Vocabulary record; a field the object lacks reads as UNDEF
Vocabulary(id, word, meaning, phonetic, topic) ==
    [id |-> id, word |-> word, meaning |-> meaning,
     phonetic |-> phonetic, topic |-> topic]

\* (mutant of readVocabulary: a file that does not parse reads as a stale
\* one-record array)
readVocabularyStale ==
    IF file.parses THEN file.records
    ELSE <<Vocabulary(1, <<"z">>, <<"z">>, <<"z">>, <<"z">>)>>

\* readVocabulary: the parsed array, or [] when reading or parsing throws
readVocabulary ==
    IF file.parses THEN file.records ELSE <<>>

\* writeVocabulary: the file holds the serialized array afterwards
writeVocabulary(vocabulary) ==
    [parses |-> TRUE, records |-> vocabulary]

RECURSIVE MaxOf(_)
MaxOf(S) ==
    LET x == CHOOSE y \in S : TRUE IN
    IF S = {x} THEN x
    ELSE LET m == MaxOf(S \ {x}) IN IF x > m THEN x ELSE m

\* (mutant of getNextId: the next id is taken from the number of records)
getNextIdFromLength(vocabulary) == Len(vocabulary) + 1

getNextId(vocabulary) ==
    IF Len(vocabulary) = 0 THEN 1
    ELSE MaxOf({vocabulary[i].id : i \in DOMAIN vocabulary}) + 1

\* Array.prototype.findIndex on v.id === id (0 for -1)
findIndexById(vocabulary, id) ==
    IF \E i \in DOMAIN vocabulary : vocabulary[i].id = id
    THEN CHOOSE i \in DOMAIN vocabulary :
            /\ vocabulary[i].id = id
            /\ \A j \in 1..(i - 1) : vocabulary[j].id # id
    ELSE 0

Error(status, message) == [status |-> status, error |-> message]

---------------------------------------------------------------------------
(* /api/vocabulary *)

\* GET /api/vocabulary[?search=]
VocabularyGet(search) ==
    LET vocabulary == readVocabulary
        searchTerm == toLowerCase(search)
        Match(v) == \/ includes(toLowerCase(v.word), searchTerm)
                    \/ includes(toLowerCase(v.meaning), searchTerm)
    IN  /\ req' = [op |-> "GET /vocabulary", search |-> search]
        /\ res' = [status |-> 200,
                   body |-> IF ~Falsy(search)
                            THEN filter(vocabulary, Match)
                            ELSE vocabulary]
        /\ UNCHANGED file

\* the record POST builds: only id, word and meaning are set
newVocabulary(vocabulary, body) ==
    Vocabulary(getNextId(vocabulary), trim(body.word), trim(body.meaning),
               UNDEF, UNDEF)

\* (mutant of existingWordPost: the words are compared as they are)
existingWordPostCaseSensitive(vocabulary, word) ==
    \E i \in DOMAIN vocabulary : vocabulary[i].word = word

\* the duplicate check of POST
existingWordPost(vocabulary, word) ==
    \E i \in DOMAIN vocabulary :
        toLowerCase(vocabulary[i].word) = toLowerCase(word)

\* POST /api/vocabulary {word, meaning, phonetic, topic}
VocabularyPost(body) ==
    LET vocabulary == readVocabulary IN
    /\ req' = [op |-> "POST /vocabulary", body |-> body]
    /\ IF Falsy(body.word) \/ Falsy(body.meaning)
       THEN /\ res' = Error(400, "Word and meaning are required")
            /\ UNCHANGED file
       ELSE IF existingWordPost(vocabulary, body.word)
       THEN /\ res' = Error(400, "Word already exists")
            /\ UNCHANGED file
       ELSE /\ Len(vocabulary) < MaxRecords
            /\ getNextId(vocabulary) <= MaxId
            /\ file' = writeVocabulary(
                           Append(vocabulary, newVocabulary(vocabulary, body)))
            /\ res' = [status |-> 201,
                       body |-> newVocabulary(vocabulary, body)]

\* (mutant of existingWordPut: the words are compared as they are)
existingWordPutCaseSensitive(vocabulary, word, id) ==
    \E i \in DOMAIN vocabulary :
        /\ vocabulary[i].word = word
        /\ vocabulary[i].id # id

\* the duplicate check of PUT, which skips the record being updated
existingWordPut(vocabulary, word, id) ==
    \E i \in DOMAIN vocabulary :
        /\ toLowerCase(vocabulary[i].word) = toLowerCase(word)
        /\ vocabulary[i].id # id

\* the record PUT stores at the index found
updatedVocabulary(body) ==
    Vocabulary(body.id, trim(body.word), trim(body.meaning), UNDEF, UNDEF)

\* PUT /api/vocabulary {id, word, meaning, phonetic, topic}; id is a number
VocabularyPut(body) ==
    LET vocabulary == readVocabulary
        index == findIndexById(vocabulary, body.id)
    IN
    /\ req' = [op |-> "PUT /vocabulary", body |-> body]
    /\ IF body.id = 0 \/ Falsy(body.word) \/ Falsy(body.meaning)
       THEN /\ res' = Error(400, "ID, word and meaning are required")
            /\ UNCHANGED file
       ELSE IF index = 0
       THEN /\ res' = Error(404, "Vocabulary not found")
            /\ UNCHANGED file
       ELSE IF existingWordPut(vocabulary, body.word, body.id)
       THEN /\ res' = Error(400, "Word already exists")
            /\ UNCHANGED file
       ELSE /\ file' = writeVocabulary(
                           [vocabulary EXCEPT ![index] = updatedVocabulary(body)])
            /\ res' = [status |-> 200, body |-> updatedVocabulary(body)]

\* (mutant of filteredVocabulary: > for !==)
filteredVocabularyGreater(vocabulary, id) ==
    LET Keep(v) == v.id > parseInt(id) IN filter(vocabulary, Keep)

\* the records DELETE keeps
filteredVocabulary(vocabulary, id) ==
    LET Keep(v) == v.id # parseInt(id) IN filter(vocabulary, Keep)

\* DELETE /api/vocabulary?id=
VocabularyDelete(id) ==
    LET vocabulary == readVocabulary IN
    /\ req' = [op |-> "DELETE /vocabulary", id |-> id]
    /\ IF Falsy(id)
       THEN /\ res' = Error(400, "Valid ID is required")
            /\ UNCHANGED file
       ELSE IF Len(filteredVocabulary(vocabulary, id)) = Len(vocabulary)
       THEN /\ res' = Error(404, "Vocabulary not found")
            /\ UNCHANGED file
       ELSE /\ file' = writeVocabulary(filteredVocabulary(vocabulary, id))
            /\ res' = [status |-> 200,
                       message |-> "Vocabulary deleted successfully"]

---------------------------------------------------------------------------
(* /api/topics *)

\* UTF-16 code units: the printable ASCII characters (the grave accent, which
\* a TLA+ string cannot hold, left out), the white space of IsSpace, and è, È
charCodeAt(c) ==
    CASE c = "a" -> 97 [] c = "b" -> 98 [] c = "c" -> 99 [] c = "d" -> 100
      [] c = "e" -> 101 [] c = "f" -> 102 [] c = "g" -> 103 [] c = "h" -> 104
      [] c = "i" -> 105 [] c = "j" -> 106 [] c = "k" -> 107 [] c = "l" -> 108
      [] c = "m" -> 109 [] c = "n" -> 110 [] c = "o" -> 111 [] c = "p" -> 112
      [] c = "q" -> 113 [] c = "r" -> 114 [] c = "s" -> 115 [] c = "t" -> 116
      [] c = "u" -> 117 [] c = "v" -> 118 [] c = "w" -> 119 [] c = "x" -> 120
      [] c = "y" -> 121 [] c = "z" -> 122 [] c = "A" -> 65 [] c = "B" -> 66
      [] c = "C" -> 67 [] c = "D" -> 68 [] c = "E" -> 69 [] c = "F" -> 70
      [] c = "G" -> 71 [] c = "H" -> 72 [] c = "I" -> 73 [] c = "J" -> 74
      [] c = "K" -> 75 [] c = "L" -> 76 [] c = "M" -> 77 [] c = "N" -> 78
      [] c = "O" -> 79 [] c = "P" -> 80 [] c = "Q" -> 81 [] c = "R" -> 82
      [] c = "S" -> 83 [] c = "T" -> 84 [] c = "U" -> 85 [] c = "V" -> 86
      [] c = "W" -> 87 [] c = "X" -> 88 [] c = "Y" -> 89 [] c = "Z" -> 90
      [] c = " " -> 32 [] c = "0" -> 48 [] c = "1" -> 49 [] c = "2" -> 50
      [] c = "3" -> 51 [] c = "4" -> 52 [] c = "5" -> 53 [] c = "6" -> 54
      [] c = "7" -> 55 [] c = "8" -> 56 [] c = "9" -> 57 [] c = "!" -> 33
      [] c = "\"" -> 34 [] c = "#" -> 35 [] c = "$" -> 36 [] c = "%" -> 37
      [] c = "&" -> 38 [] c = "'" -> 39 [] c = "(" -> 40 [] c = ")" -> 41
      [] c = "*" -> 42 [] c = "+" -> 43 [] c = "," -> 44 [] c = "-" -> 45
      [] c = "." -> 46 [] c = "/" -> 47 [] c = ":" -> 58 [] c = ";" -> 59
      [] c = "<" -> 60 [] c = "=" -> 61 [] c = ">" -> 62 [] c = "?" -> 63
      [] c = "@" -> 64 [] c = "[" -> 91 [] c = "\\" -> 92 [] c = "]" -> 93
      [] c = "^" -> 94 [] c = "_" -> 95 [] c = "{" -> 123
      [] c = "|" -> 124 [] c = "}" -> 125 [] c = "~" -> 126 [] c = "\t" -> 9
      [] c = "\n" -> 10 [] c = "\f" -> 12 [] c = "\r" -> 13 [] c = " " -> 160
      [] c = "È" -> 200 [] c = "è" -> 232
      [] OTHER -> 65535

\* s < t in the order of Array.prototype.sort without a comparator:
\* by code units, undefined after every string
RECURSIVE sortsBefore(_, _)
sortsBefore(s, t) ==
    IF s = UNDEF THEN FALSE
    ELSE IF t = UNDEF THEN TRUE
    ELSE IF t = <<>> THEN FALSE
    ELSE IF s = <<>> THEN TRUE
    ELSE IF charCodeAt(Head(s)) # charCodeAt(Head(t))
         THEN charCodeAt(Head(s)) < charCodeAt(Head(t))
         ELSE sortsBefore(Tail(s), Tail(t))

\* Array.from(new Set(values)).sort()
sortedDistinct(values) ==
    LET S == {values[i] : i \in DOMAIN values} IN
    CHOOSE seq \in [1..Cardinality(S) -> S] :
        \A i, j \in 1..Cardinality(S) : i < j => sortsBefore(seq[i], seq[j])

\* (mutant of topicStats: the count is not filtered by topic)
topicStatsUnfiltered(vocabulary) ==
    LET topics == sortedDistinct([i \in DOMAIN vocabulary |-> vocabulary[i].topic])
    IN  [i \in DOMAIN topics |->
            [name |-> topics[i], count |-> Len(vocabulary)]]

\* the {name, count} entries of GET /api/topics
topicStats(vocabulary) ==
    LET topics == sortedDistinct([i \in DOMAIN vocabulary |-> vocabulary[i].topic])
        HasTopic(name) == LET Keep(v) == v.topic = name IN filter(vocabulary, Keep)
    IN  [i \in DOMAIN topics |->
            [name |-> topics[i], count |-> Len(HasTopic(topics[i]))]]

\* GET /api/topics
TopicsGet ==
    /\ req' = [op |-> "GET /topics"]
    /\ res' = [status |-> 200, body |-> topicStats(readVocabulary)]
    /\ UNCHANGED file

\* (mutant of existingTopic: only the first record is looked at)
existingTopicFirst(vocabulary, name) ==
    vocabulary # <<>> /\ vocabulary[1].topic = name

\* vocabulary.find(v => v.topic === name) finds a record
existingTopic(vocabulary, name) ==
    \E i \in DOMAIN vocabulary : vocabulary[i].topic = name

\* vocabulary.filter(v => v.topic === name)
topicWords(vocabulary, name) ==
    LET Keep(v) == v.topic = name IN filter(vocabulary, Keep)

\* (mutant of TopicsPost: the topic is created by writing a record for it)
TopicsPostCreating(body) ==
    LET vocabulary == readVocabulary
        topicName == trim(body.name)
    IN
    /\ req' = [op |-> "POST /topics", body |-> body]
    /\ IF Falsy(body.name) \/ trim(body.name) = <<>>
       THEN /\ res' = Error(400, "Topic name is required")
            /\ UNCHANGED file
       ELSE IF existingTopic(vocabulary, topicName)
       THEN /\ res' = Error(400, "Topic already exists")
            /\ UNCHANGED file
       ELSE /\ Len(vocabulary) < MaxRecords
            /\ getNextId(vocabulary) <= MaxId
            /\ file' = writeVocabulary(
                           Append(vocabulary,
                                  Vocabulary(getNextId(vocabulary), <<>>, <<>>,
                                             <<>>, topicName)))
            /\ res' = [status |-> 200, message |-> "Topic created successfully",
                       topic |-> topicName]

\* POST /api/topics {name}
TopicsPost(body) ==
    LET vocabulary == readVocabulary
        topicName == trim(body.name)
    IN
    /\ req' = [op |-> "POST /topics", body |-> body]
    /\ UNCHANGED file
    /\ IF Falsy(body.name) \/ trim(body.name) = <<>>
       THEN res' = Error(400, "Topic name is required")
       ELSE IF existingTopic(vocabulary, topicName)
       THEN res' = Error(400, "Topic already exists")
       ELSE res' = [status |-> 200, message |-> "Topic created successfully",
                    topic |-> topicName]

\* (mutant of renamedVocabulary: the test on the old topic is lost)
renamedVocabularyAll(vocabulary, oldTopicName, newTopicName) ==
    [i \in DOMAIN vocabulary |-> [vocabulary[i] EXCEPT !.topic = newTopicName]]

\* vocabulary.map(v => v.topic === oldTopicName ? {...v, topic: newTopicName} : v)
renamedVocabulary(vocabulary, oldTopicName, newTopicName) ==
    [i \in DOMAIN vocabulary |->
        IF vocabulary[i].topic = oldTopicName
        THEN [vocabulary[i] EXCEPT !.topic = newTopicName]
        ELSE vocabulary[i]]

\* PUT /api/topics {oldName, newName}
TopicsPut(body) ==
    LET vocabulary == readVocabulary
        oldTopicName == trim(body.oldName)
        newTopicName == trim(body.newName)
    IN
    /\ req' = [op |-> "PUT /topics", body |-> body]
    /\ IF Falsy(body.oldName) \/ Falsy(body.newName)
       THEN /\ res' = Error(400, "Old name and new name are required")
            /\ UNCHANGED file
       ELSE IF oldTopicName = newTopicName
       THEN /\ res' = Error(400, "New name must be different from old name")
            /\ UNCHANGED file
       ELSE IF Len(topicWords(vocabulary, oldTopicName)) = 0
       THEN /\ res' = Error(404, "Topic not found")
            /\ UNCHANGED file
       ELSE IF existingTopic(vocabulary, newTopicName)
       THEN /\ res' = Error(400, "New topic name already exists")
            /\ UNCHANGED file
       ELSE /\ file' = writeVocabulary(
                           renamedVocabulary(vocabulary, oldTopicName, newTopicName))
            /\ res' = [status |-> 200,
                       updatedCount |-> Len(topicWords(vocabulary, oldTopicName))]

\* (mutant of withoutTopic: === for !==)
withoutTopicKept(vocabulary, topicName) ==
    LET Keep(v) == v.topic = topicName IN filter(vocabulary, Keep)

\* vocabulary.filter(v => v.topic !== topicName)
withoutTopic(vocabulary, topicName) ==
    LET Keep(v) == v.topic # topicName IN filter(vocabulary, Keep)

\* DELETE /api/topics {name}
TopicsDelete(body) ==
    LET vocabulary == readVocabulary
        topicName == trim(body.name)
    IN
    /\ req' = [op |-> "DELETE /topics", body |-> body]
    /\ IF Falsy(body.name) \/ trim(body.name) = <<>>
       THEN /\ res' = Error(400, "Topic name is required")
            /\ UNCHANGED file
       ELSE IF Len(topicWords(vocabulary, topicName)) = 0
       THEN /\ res' = Error(404, "Topic not found")
            /\ UNCHANGED file
       ELSE /\ file' = writeVocabulary(withoutTopic(vocabulary, topicName))
            /\ res' = [status |-> 200,
                       deletedCount |-> Len(topicWords(vocabulary, topicName))]

---------------------------------------------------------------------------
(* The requests of the model and the specification of the two CRUD routes. *)

Str1(a) == <<a>>
Str2(a, b) == <<a, b>>

\* request strings for word: plain, another case, padded, blank, empty, missing
WordInputs == {Str1("a"), Str1("A"), Str2(" ", "a"), Str1("b"), <<>>, UNDEF}

\* a request body as the page sends it
Body(word, meaning) ==
    [word |-> word, meaning |-> meaning,
     phonetic |-> Str1("p"), topic |-> Str1("t")]

\* every word with a meaning, and one body without a meaning
VocabularyBodies ==
    {Body(w, Str1("m")) : w \in WordInputs} \cup {Body(Str1("a"), UNDEF)}

\* bodies that lack a field the page's form requires: an empty phonetic,
\* no topic
IncompleteBodies ==
    { [Body(Str1("b"), Str1("m")) EXCEPT !.phonetic = <<>>],
      [Body(Str1("b"), Str1("m")) EXCEPT !.topic = UNDEF] }

PutBodies ==
    {[id |-> i, word |-> b.word, meaning |-> b.meaning,
      phonetic |-> b.phonetic, topic |-> b.topic] :
        i \in 0..MaxId, b \in VocabularyBodies}

\* the id of the query string: decimal, followed by a letter, no number,
\* hexadecimal, negative, missing
IdQueries == {Str1("0"), Str1("1"), Str1("2"), Str1("3"), Str1("4"),
              Str2("2", "x"), Str1("x"), <<"0", "x", "1">>, Str2("-", "1"),
              UNDEF}

\* no search term, a word in another case, a meaning, a topic
SearchInputs == {UNDEF, Str1("A"), Str1("m"), Str1("t")}

TopicNames == {Str1("t"), Str2(" ", "t"), Str1("u"), Str1("x"), Str1(" "), UNDEF}

\* the store a run starts from: no readable file, an empty array, or an
\* array of well-formed records (distinct ids, distinct words)
SeedRecords ==
    << Vocabulary(1, Str1("a"), Str1("m"), Str1("p"), Str1("t")),
       Vocabulary(2, Str1("b"), Str1("n"), Str1("q"), Str1("u")),
       Vocabulary(3, Str1("c"), Str1("m"), Str1("r"), Str1("t")) >>

InitFiles ==
    { [parses |-> FALSE, records |-> <<>>] }
    \cup { [parses |-> TRUE, records |-> SubSeq(SeedRecords, 1, n)] :
             n \in 0..Len(SeedRecords) }

NoRequest == [op |-> "none"]
NoResponse == [status |-> 0]

Init ==
    /\ file \in InitFiles
    /\ req = NoRequest
    /\ res = NoResponse

Next ==
    \/ \E search \in SearchInputs : VocabularyGet(search)
    \/ \E body \in VocabularyBodies \cup IncompleteBodies : VocabularyPost(body)
    \/ \E body \in PutBodies : VocabularyPut(body)
    \/ \E id \in IdQueries : VocabularyDelete(id)
    \/ TopicsGet
    \/ \E name \in TopicNames : TopicsPost([name |-> name])
    \/ \E o \in TopicNames, n \in TopicNames :
           TopicsPut([oldName |-> o, newName |-> n])
    \/ \E name \in TopicNames : TopicsDelete([name |-> name])

Spec == Init /\ [][Next]_vars

\* Runs of POST and PUT /api/vocabulary alone, on request strings that are
\* given, blank, padded, empty or missing.
StringInputs == {Str1("a"), Str1(" "), Str2(" ", "b"), <<>>, UNDEF}

StringBodies ==
    {Body(w, Str1("m")) : w \in StringInputs}
    \cup {Body(Str1("c"), m) : m \in StringInputs}

PutStringBodies ==
    {[id |-> i, word |-> b.word, meaning |-> b.meaning,
      phonetic |-> b.phonetic, topic |-> b.topic] :
        i \in 1..MaxId, b \in StringBodies}

NextStrings ==
    \/ \E body \in StringBodies : VocabularyPost(body)
    \/ \E body \in PutStringBodies : VocabularyPut(body)

SpecStrings == Init /\ [][NextStrings]_vars

---------------------------------------------------------------------------
(* /api/quiz: the text answer checker. *)

\* /[.,!?;:()]/
IsPunctuation(c) == c \in {".", ",", "!", "?", ";", ":", "(", ")"}

\* the combining grave accent U+0300, the one mark of the range
\* U+0300..U+036F that the decomposition of a character of the model yields
CombiningGrave == "U+0300"

\* replace(/\s+/g, ' '): every run of white space becomes one space
RECURSIVE collapseSpaces(_)
collapseSpaces(s) ==
    IF s = <<>> THEN <<>>
    ELSE IF IsSpace(Head(s))
         THEN <<" ">> \o collapseSpaces(trimStart(s))
         ELSE <<Head(s)>> \o collapseSpaces(Tail(s))

\* replace(/[.,!?;:()]/g, '')
removePunctuation(s) == LET Keep(c) == ~IsPunctuation(c) IN filter(s, Keep)

\* normalize('NFD'): a precomposed letter becomes its base and its mark
RECURSIVE normalizeNFD(_)
normalizeNFD(s) ==
    IF s = <<>> THEN <<>>
    ELSE (IF Head(s) = "è" THEN <<"e", CombiningGrave>> ELSE <<Head(s)>>)
         \o normalizeNFD(Tail(s))

\* replace(/[\u0300-\u036f]/g, '')
removeMarks(s) == LET Keep(c) == c # CombiningGrave IN filter(s, Keep)

\* normalize('NFC'): a base followed by its mark becomes the precomposed letter
RECURSIVE normalizeNFC(_)
normalizeNFC(s) ==
    IF Len(s) < 2 THEN s
    ELSE IF Head(s) = "e" /\ s[2] = CombiningGrave
         THEN <<"è">> \o normalizeNFC(Tail(Tail(s)))
         ELSE <<Head(s)>> \o normalizeNFC(Tail(s))

normalizeVietnamese(text) ==
    normalizeNFC(removeMarks(normalizeNFD(
        removePunctuation(collapseSpaces(trim(toLowerCase(text)))))))

\* String.prototype.split(' '): the pieces between single spaces, empty
\* pieces included
RECURSIVE splitAcc(_, _)
splitAcc(s, word) ==
    IF s = <<>> THEN <<word>>
    ELSE IF Head(s) = " "
         THEN <<word>> \o splitAcc(Tail(s), <<>>)
         ELSE splitAcc(Tail(s), Append(word, Head(s)))

split(s) == splitAcc(s, <<>>)

\* correctWords.every(word => userWords.some(userWord =>
\*     userWord.includes(word) || word.includes(userWord)))
everyWordPresent(correctWords, userWords) ==
    \A i \in DOMAIN correctWords : \E j \in DOMAIN userWords :
        \/ includes(userWords[j], correctWords[i])
        \/ includes(correctWords[i], userWords[j])

\* (mutant of containsEither: only the user answer may contain the other)
containsUserOnly(normalizedUser, normalizedCorrect) ==
    includes(normalizedUser, normalizedCorrect)

\* normalizedUser.includes(normalizedCorrect) ||
\* normalizedCorrect.includes(normalizedUser)
containsEither(normalizedUser, normalizedCorrect) ==
    \/ includes(normalizedUser, normalizedCorrect)
    \/ includes(normalizedCorrect, normalizedUser)

isAnswerCorrect(userAnswer, correctAnswer, isVietnamese) ==
    LET normalizedUser == normalizeVietnamese(userAnswer)
        normalizedCorrect == normalizeVietnamese(correctAnswer)
    IN
    IF Falsy(userAnswer) \/ Falsy(correctAnswer) THEN FALSE
    ELSE IF isVietnamese
    THEN IF normalizedUser = normalizedCorrect THEN TRUE
         ELSE IF containsEither(normalizedUser, normalizedCorrect) THEN TRUE
         ELSE IF everyWordPresent(split(normalizedCorrect), split(normalizedUser))
              THEN TRUE
         ELSE FALSE
    ELSE normalizedUser = normalizedCorrect

\* a call isAnswerCorrect(userAnswer, correctAnswer, isVietnamese) with the
\* two answers of the pending request
IsAnswerCorrectCall(isVietnamese) ==
    /\ req.op = "isAnswerCorrect"
    /\ res = [status |-> 0]
    /\ res' = [status |-> 200,
               isVietnamese |-> isVietnamese,
               isCorrect |-> isAnswerCorrect(req.userAnswer, req.correctAnswer,
                                             isVietnamese)]
    /\ UNCHANGED <<file, req>>

\* The two answers of a call are strings over AnswerAlphabet with at most
\* MaxAnswerChars characters together.
MaxAnswerChars == 5

AnswerAlphabet == {"a", "A", "è", " ", "."}

RECURSIVE StringsOfLen(_)
StringsOfLen(n) ==
    IF n = 0 THEN {<<>>}
    ELSE LET shorter == StringsOfLen(n - 1) IN
         {Append(t, c) : t \in shorter, c \in AnswerAlphabet}

InitAnswer ==
    /\ file = [parses |-> TRUE, records |-> <<>>]
    /\ \E k \in 0..MaxAnswerChars : \E j \in 0..(MaxAnswerChars - k) :
       \E u \in StringsOfLen(k) : \E c \in StringsOfLen(j) :
           req = [op |-> "isAnswerCorrect", userAnswer |-> u, correctAnswer |-> c]
    /\ res = [status |-> 0]

NextAnswer == \E isVietnamese \in BOOLEAN : IsAnswerCorrectCall(isVietnamese)

SpecAnswer == InitAnswer /\ [][NextAnswer]_vars

---------------------------------------------------------------------------
(* /api/quiz: the question generator. *)

\* Math.random() is a choice the caller of these operators makes: the index
\* drawn for the correct item, the coin of the mixed modes, and for each
\* shuffle the index j drawn at every position i.

\* the j's a shuffle of n elements may draw: one in 0..i for i = n-1 .. 1
ShuffleDraws(n) == {js \in [1..(n - 1) -> 0..(n - 1)] : \A i \in 1..(n - 1) : js[i] <= i}

\* the loop of shuffleArray from position i (0-based) down to 1
RECURSIVE shuffleFrom(_, _, _)
shuffleFrom(shuffled, i, js) ==
    IF i < 1 THEN shuffled
    ELSE shuffleFrom([shuffled EXCEPT ![i + 1] = shuffled[js[i] + 1],
                                      ![js[i] + 1] = shuffled[i + 1]],
                     i - 1, js)

shuffleArray(array, js) == shuffleFrom(array, Len(array) - 1, js)

\* at least this many records are needed for the wrong options
MinVocabulary == 4

\* the number of incorrect options drawn from the pool
IncorrectOptions == 3

ValidModes ==
    {"phonetic-to-meaning", "meaning-to-phonetic", "mixed",
     "phonetic-to-meaning-text", "meaning-to-phonetic-text", "mixed-text"}

\* a topic of the query string that selects: given, and not 'all'
TopicSelects(topic) == ~Falsy(topic) /\ topic # <<"a", "l", "l">>

\* (mutant of topicFiltered: the topic is ignored)
topicFilteredAll(vocabulary, topic) == vocabulary

\* filteredVocabulary: the records of the topic, or all of them
topicFiltered(vocabulary, topic) ==
    IF TopicSelects(topic)
    THEN LET Keep(v) == v.topic = topic IN filter(vocabulary, Keep)
    ELSE vocabulary

\* the question type of a mode; coin is Math.random() < 0.5
questionTypeOf(mode, coin) ==
    CASE mode = "mixed" ->
            IF coin THEN "phonetic-to-meaning" ELSE "meaning-to-phonetic"
      [] mode = "mixed-text" ->
            IF coin THEN "phonetic-to-meaning-text" ELSE "meaning-to-phonetic-text"
      [] OTHER -> mode

\* mode.includes('-text'), for the six modes
inputTypeOf(mode) ==
    IF mode \in {"mixed-text", "phonetic-to-meaning-text", "meaning-to-phonetic-text"}
    THEN "text-input" ELSE "multiple-choice"

IsPhoneticToMeaning(questionType) ==
    questionType \in {"phonetic-to-meaning", "phonetic-to-meaning-text"}

\* the values of all records (meanings or phonetics) other than the answer
optionPool(vocabulary, questionType, correctAnswer) ==
    LET Keep(x) == x # correctAnswer IN
    IF questionType = "phonetic-to-meaning"
    THEN filter([i \in DOMAIN vocabulary |-> vocabulary[i].meaning], Keep)
    ELSE filter([i \in DOMAIN vocabulary |-> vocabulary[i].phonetic], Keep)

\* shuffledPool.slice(0, 3)
slice3(shuffledPool) ==
    SubSeq(shuffledPool, 1,
           IF Len(shuffledPool) < IncorrectOptions THEN Len(shuffledPool)
           ELSE IncorrectOptions)

Null == [null |-> TRUE]

\* (mutant of correctItemOf: the index is applied to the whole vocabulary)
correctItemOfVocabulary(vocabulary, filtered, pick) == vocabulary[pick + 1]

\* filteredVocabulary[Math.floor(Math.random() * filteredVocabulary.length)]
correctItemOf(vocabulary, filtered, pick) == filtered[pick + 1]

\* generateQuestion(vocabulary, mode, topic) with its random draws:
\* pick = Math.floor(Math.random() * filteredVocabulary.length)
generateQuestion(vocabulary, mode, topic, pick, coin, poolDraws, optionDraws) ==
    LET filtered == topicFiltered(vocabulary, topic) IN
    IF Len(filtered) = 0 THEN Null
    ELSE IF Len(vocabulary) < MinVocabulary THEN Null
    ELSE
    LET correctItem == correctItemOf(vocabulary, filtered, pick)
        questionType == questionTypeOf(mode, coin)
        inputType == inputTypeOf(mode)
        question == IF IsPhoneticToMeaning(questionType)
                    THEN correctItem.phonetic ELSE correctItem.meaning
        correctAnswer == IF IsPhoneticToMeaning(questionType)
                         THEN correctItem.meaning ELSE correctItem.phonetic
        shuffledPool ==
            shuffleArray(optionPool(vocabulary, questionType, correctAnswer),
                         poolDraws)
        incorrectOptions == slice3(shuffledPool)
    IN  [id |-> correctItem.id,
         question |-> question,
         correctAnswer |-> correctAnswer,
         options |-> IF inputType = "multiple-choice"
                     THEN shuffleArray(<<correctAnswer>> \o incorrectOptions,
                                       optionDraws)
                     ELSE UNDEF,
         type |-> questionType,
         word |-> correctItem.word,
         inputType |-> inputType]

\* the text of the 400 response when the topic selects no record:
\* `No vocabulary items found${topic ? ` in topic "${topic}"` : ''}`,
\* as a string of characters
noItemsFoundError(topic) ==
    LET NoItemsFound ==
            <<"N", "o", " ", "v", "o", "c", "a", "b", "u", "l", "a", "r", "y",
              " ", "i", "t", "e", "m", "s", " ", "f", "o", "u", "n", "d">>
        InTopicOpen ==
            <<" ", "i", "n", " ", "t", "o", "p", "i", "c", " ", "\"">>
    IN  IF Falsy(topic) THEN NoItemsFound
        ELSE NoItemsFound \o InTopicOpen \o topic \o <<"\"">>

\* null inside a JSON array of strings
NullOption == <<"null">>

\* res.json(question): JSON.stringify writes an undefined element of options
\* as null and leaves an undefined property out (it reads as UNDEF)
jsonQuestion(question) ==
    [question EXCEPT
        !.options = IF question.options = UNDEF THEN UNDEF
                    ELSE [i \in DOMAIN question.options |->
                             IF question.options[i] = UNDEF THEN NullOption
                             ELSE question.options[i]]]

\* GET /api/quiz?mode=&topic= for the pending request.  The draws are taken
\* only where the code takes them.
QuizGet ==
    LET vocabulary == readVocabulary
        topic == req.query.topic
        mode == IF req.query.mode = "" THEN "mixed" ELSE req.query.mode
        filtered == topicFiltered(vocabulary, topic)
        quizMode == IF mode \in ValidModes THEN mode ELSE "mixed"
    IN
    /\ req.op = "GET /quiz"
    /\ res = [status |-> 0]
    /\ UNCHANGED <<file, req>>
    /\ IF Len(vocabulary) = 0
       THEN res' = Error(400, "No vocabulary available for quiz")
       ELSE IF Len(filtered) = 0
       THEN res' = Error(400, noItemsFoundError(topic))
       ELSE IF Len(vocabulary) < MinVocabulary
       THEN res' = Error(400, "At least 4 vocabulary items are required for quiz mode")
       ELSE \E pick \in 0..(Len(filtered) - 1) :
            \E coin \in (IF quizMode \in {"mixed", "mixed-text"}
                         THEN BOOLEAN ELSE {TRUE}) :
            LET questionType == questionTypeOf(quizMode, coin)
                correctAnswer == IF IsPhoneticToMeaning(questionType)
                                 THEN filtered[pick + 1].meaning
                                 ELSE filtered[pick + 1].phonetic
                pool == optionPool(vocabulary, questionType, correctAnswer)
                multipleChoice == inputTypeOf(quizMode) = "multiple-choice"
            IN
            \E poolDraws \in ShuffleDraws(IF multipleChoice THEN Len(pool) ELSE 0) :
            \E optionDraws \in ShuffleDraws(IF multipleChoice
                                            THEN 1 + Len(slice3(pool)) ELSE 0) :
            LET generated == generateQuestion(vocabulary, quizMode, topic, pick,
                                              coin, poolDraws, optionDraws)
            IN  res' = IF generated = Null
                       THEN Error(500, "Failed to generate quiz question")
                       ELSE [status |-> 200, body |-> jsonQuestion(generated)]

\* The stores of the quiz runs: the records of QuizRecords, in their order,
\* that a set of at most MaxQuizRecords indices selects.
MaxQuizRecords == 4

\* well-formed records (distinct ids, words and phonetics; meanings repeat,
\* as only the word is unique) and one record as POST /vocabulary writes it
QuizRecords ==
    << Vocabulary(1, Str1("a"), Str1("m"), Str1("p"), Str1("t")),
       Vocabulary(2, Str1("b"), Str1("n"), Str1("q"), Str1("t")),
       Vocabulary(3, Str1("c"), Str1("m"), Str1("r"), Str1("u")),
       Vocabulary(4, Str1("d"), Str1("s"), Str2("p", "q"), Str1("t")),
       Vocabulary(5, Str1("e"), Str1("x"), Str2("q", "r"), Str1("u")),
       Vocabulary(6, Str1("A"), Str1("M"), UNDEF, UNDEF) >>

RECURSIVE Selected(_, _)
Selected(indices, from) ==
    IF from > Len(QuizRecords) THEN <<>>
    ELSE (IF from \in indices THEN <<QuizRecords[from]>> ELSE <<>>)
         \o Selected(indices, from + 1)

QuizFiles ==
    { [parses |-> FALSE, records |-> <<>>] }
    \cup { [parses |-> TRUE, records |-> Selected(indices, 1)] :
             indices \in {I \in SUBSET (1..Len(QuizRecords)) :
                             Cardinality(I) <= MaxQuizRecords} }

\* mode of the query string ("" when it is not given)
ModeQueries == ValidModes \cup {"", "bogus"}

TopicQueries == {UNDEF, <<"a", "l", "l">>, Str1("t"), Str1("u"), Str1("x")}

InitQuiz ==
    /\ file \in QuizFiles
    /\ req \in {[op |-> "GET /quiz", query |-> [mode |-> m, topic |-> t]] :
                   m \in ModeQueries, t \in TopicQueries}
    /\ res = [status |-> 0]

NextQuiz == QuizGet

SpecQuiz == InitQuiz /\ [][NextQuiz]_vars

---------------------------------------------------------------------------
(* The routes on a store file that is missing or does not parse: every     *)
(* request of the CRUD routes, and a pending GET /api/quiz.                *)

QuizRequests ==
    {[op |-> "GET /quiz", query |-> [mode |-> m, topic |-> t]] :
        m \in ModeQueries, t \in TopicQueries}

InitMissing ==
    /\ file = [parses |-> FALSE, records |-> <<>>]
    /\ req \in {NoRequest} \cup QuizRequests
    /\ res = NoResponse

NextMissing ==
    \/ Next
    \/ QuizGet

SpecMissing == InitMissing /\ [][NextMissing]_vars

---------------------------------------------------------------------------
(* Two mutation requests in flight.  The file is found through the working *)
(* directory of the server process, so every server process started there  *)
(* reads and rewrites the same file.  A handler calls readFileSync and      *)
(* later writeFileSync; it contains no await (the async topics handler      *)
(* neither), so inside one process a handler runs from its start to its     *)
(* response before another handler starts, while the handlers of two        *)
(* processes interleave between the file system calls.  writeFileSync is    *)
(* itself two calls: it opens the file, which truncates it, and then        *)
(* writes the text at the start of the file.  Here req and res hold the     *)
(* request and the response of each request in flight: its process, its     *)
(* position (received, read, opened, done), the array it has read, the      *)
(* array it writes and the response it sends after the write.               *)

Requests == {"r1", "r2"}

Processes == {"p1", "p2"}

RacePostBodies ==
    {Body(Str1("a"), Str1("m")), Body(Str1("b"), Str1("m")), Body(<<>>, Str1("m"))}

RaceRequests ==
    {[op |-> "POST /vocabulary", body |-> b] : b \in RacePostBodies}
    \cup {[op |-> "DELETE /topics", body |-> [name |-> n]] :
             n \in {Str1("t"), Str1("u"), UNDEF}}

\* the validation a handler does before it reads the file
RaceRejected(request) ==
    IF request.op = "POST /vocabulary"
    THEN Falsy(request.body.word) \/ Falsy(request.body.meaning)
    ELSE Falsy(request.body.name) \/ trim(request.body.name) = <<>>

\* the bytes JSON.stringify and the UTF-8 encoding give a character of a
\* string: two for an escaped character and for a character beyond ASCII
jsonCharLength(c) ==
    IF c \in {"\"", "\\", "\n", "\t", "\r", "\f"} THEN 2
    ELSE IF c \in {"è", "È", " ", CombiningGrave} THEN 2
    ELSE 1

RECURSIVE jsonStringLength(_)
jsonStringLength(s) ==
    IF s = <<>> THEN 2 ELSE jsonCharLength(Head(s)) + jsonStringLength(Tail(s))

RECURSIVE jsonNumberLength(_)
jsonNumberLength(n) ==
    IF n < 0 THEN 1 + jsonNumberLength(-n)
    ELSE IF n < 10 THEN 1
    ELSE 1 + jsonNumberLength(n \div 10)

\* a record at indent 2: "  {", each property after a line break, a comma
\* between two properties, a line break and "  }".  A property is on its
\* line four spaces, the quoted name, a colon and a space, and the value;
\* a property that is undefined is left out.
jsonRecordLength(v) ==
    LET jsonPropertyLength(nameLength, value) ==
            IF value = UNDEF THEN 0
            ELSE 4 + (nameLength + 2) + 2 + jsonStringLength(value)
        strings == <<jsonPropertyLength(4, v.word), jsonPropertyLength(7, v.meaning),
                     jsonPropertyLength(8, v.phonetic), jsonPropertyLength(5, v.topic)>>
        present == {i \in 1..4 : strings[i] > 0}
    IN  3 + (1 + 4 + 4 + 2 + jsonNumberLength(v.id))
        + strings[1] + strings[2] + strings[3] + strings[4]
        + 2 * Cardinality(present) + 4

RECURSIVE jsonRecordsLength(_)
jsonRecordsLength(vocabulary) ==
    IF vocabulary = <<>> THEN 0
    ELSE 1 + jsonRecordLength(Head(vocabulary)) + jsonRecordsLength(Tail(vocabulary))

\* the number of bytes of JSON.stringify(vocabulary, null, 2): "[]" for the
\* empty array; otherwise "[", each record after a line break, a comma
\* between two records, a line break and "]"
textLength(vocabulary) ==
    IF vocabulary = <<>> THEN 2
    ELSE 1 + jsonRecordsLength(vocabulary) + (Len(vocabulary) - 1) + 2

\* the file after fs.writeFileSync has opened it: the open truncates it to
\* no bytes, which JSON.parse rejects
truncatedFile == [parses |-> FALSE, records |-> <<>>]

\* the file after fs.writeFileSync has written the text of vocabulary at
\* offset 0 of the file it opened.  A file that parses here holds a text
\* another process wrote after this open; when that text is longer, its
\* end stays behind the text written and the file does not parse.
fileAfterWrite(vocabulary) ==
    IF file.parses /\ textLength(file.records) > textLength(vocabulary)
    THEN [parses |-> FALSE, records |-> <<>>]
    ELSE writeVocabulary(vocabulary)

\* the handler of request r starts: it validates the body and reads the file
RaceRead(r) ==
    /\ req[r].pc = "received"
    /\ \A o \in Requests \ {r} :
           req[o].proc = req[r].proc => req[o].pc \notin {"read", "opened"}
    /\ UNCHANGED file
    /\ IF RaceRejected(req[r])
       THEN /\ req' = [req EXCEPT ![r].pc = "done"]
            /\ res' = [res EXCEPT ![r] =
                           IF req[r].op = "POST /vocabulary"
                           THEN Error(400, "Word and meaning are required")
                           ELSE Error(400, "Topic name is required")]
       ELSE /\ req' = [req EXCEPT ![r].pc = "read",
                                  ![r].vocabulary = readVocabulary]
            /\ UNCHANGED res

\* (mutant of RacePostWrite: the file is read again before it is written)
RacePostWriteRereading(r) ==
    LET vocabulary == readVocabulary
        body == req[r].body
    IN
    /\ req[r].pc = "read"
    /\ req[r].op = "POST /vocabulary"
    /\ IF existingWordPost(vocabulary, body.word)
       THEN /\ req' = [req EXCEPT ![r].pc = "done"]
            /\ res' = [res EXCEPT ![r] = Error(400, "Word already exists")]
            /\ UNCHANGED file
       ELSE /\ Len(vocabulary) < MaxRecords
            /\ getNextId(vocabulary) <= MaxId
            /\ file' = truncatedFile
            /\ UNCHANGED res
            /\ req' = [req EXCEPT
                          ![r].pc = "opened",
                          ![r].data = Append(vocabulary,
                                             newVocabulary(vocabulary, body)),
                          ![r].response =
                              [status |-> 201,
                               body |-> newVocabulary(vocabulary, body)]]

\* POST /api/vocabulary after the read: the duplicate check on the array
\* read and the push; writeVocabulary has serialized the array and
\* fs.writeFileSync has opened the file, which truncates it
RacePostWrite(r) ==
    LET vocabulary == req[r].vocabulary
        body == req[r].body
    IN
    /\ req[r].pc = "read"
    /\ req[r].op = "POST /vocabulary"
    /\ IF existingWordPost(vocabulary, body.word)
       THEN /\ req' = [req EXCEPT ![r].pc = "done"]
            /\ res' = [res EXCEPT ![r] = Error(400, "Word already exists")]
            /\ UNCHANGED file
       ELSE /\ Len(vocabulary) < MaxRecords
            /\ getNextId(vocabulary) <= MaxId
            /\ file' = truncatedFile
            /\ UNCHANGED res
            /\ req' = [req EXCEPT
                          ![r].pc = "opened",
                          ![r].data = Append(vocabulary,
                                             newVocabulary(vocabulary, body)),
                          ![r].response =
                              [status |-> 201,
                               body |-> newVocabulary(vocabulary, body)]]

\* DELETE /api/topics after the read: the filters of the array read;
\* writeVocabulary has serialized the array and fs.writeFileSync has opened
\* the file, which truncates it
RaceTopicsDeleteWrite(r) ==
    LET vocabulary == req[r].vocabulary
        topicName == trim(req[r].body.name)
    IN
    /\ req[r].pc = "read"
    /\ req[r].op = "DELETE /topics"
    /\ IF Len(topicWords(vocabulary, topicName)) = 0
       THEN /\ req' = [req EXCEPT ![r].pc = "done"]
            /\ res' = [res EXCEPT ![r] = Error(404, "Topic not found")]
            /\ UNCHANGED file
       ELSE /\ file' = truncatedFile
            /\ UNCHANGED res
            /\ req' = [req EXCEPT
                          ![r].pc = "opened",
                          ![r].data = withoutTopic(vocabulary, topicName),
                          ![r].response =
                              [status |-> 200,
                               deletedCount |->
                                   Len(topicWords(vocabulary, topicName))]]

\* fs.writeFileSync writes the text into the file it opened, and the
\* handler sends its response
RaceWriteFileSync(r) ==
    /\ req[r].pc = "opened"
    /\ file' = fileAfterWrite(req[r].data)
    /\ req' = [req EXCEPT ![r].pc = "done"]
    /\ res' = [res EXCEPT ![r] = req[r].response]

InitRace ==
    /\ file \in InitFiles
    /\ \E request \in [Requests -> RaceRequests], proc \in [Requests -> Processes] :
           req = [r \in Requests |->
                     [op |-> request[r].op, body |-> request[r].body,
                      proc |-> proc[r], pc |-> "received", vocabulary |-> <<>>,
                      data |-> <<>>, response |-> NoResponse]]
    /\ res = [r \in Requests |-> NoResponse]

NextRace ==
    \/ \E r \in Requests : RaceRead(r)
    \/ \E r \in Requests : RacePostWrite(r)
    \/ \E r \in Requests : RaceTopicsDeleteWrite(r)
    \/ \E r \in Requests : RaceWriteFileSync(r)

SpecRace == InitRace /\ [][NextRace]_vars

---------------------------------------------------------------------------
(* The panels of the vocabulary page.  Here req holds the view flags of    *)
(* the component (editingId 0 is null) and the list the page shows is the  *)
(* array of the file.                                                      *)

PanelsClosed ==
    [op |-> "vocabulary page", showAddForm |-> FALSE, editingId |-> 0,
     showBulkAdd |-> FALSE, bulkMode |-> "select",
     showTopicManagement |-> FALSE, showAddTopic |-> FALSE]

\* the button '+ Add New Word' / 'Cancel'
ClickAddNewWord ==
    /\ req' = IF req.showAddForm
              THEN [req EXCEPT !.showAddForm = FALSE, !.editingId = 0]
              ELSE [req EXCEPT !.showAddForm = TRUE]
    /\ UNCHANGED <<file, res>>

\* Edit on a row of the list
startEdit(vocab) ==
    /\ req' = [req EXCEPT !.editingId = vocab.id, !.showAddForm = TRUE]
    /\ UNCHANGED <<file, res>>

\* Cancel inside the add/edit form
resetForm ==
    /\ req.showAddForm
    /\ req' = [req EXCEPT !.editingId = 0, !.showAddForm = FALSE]
    /\ UNCHANGED <<file, res>>

\* the button 'Bulk Add Words' / 'Cancel Bulk Add'
ClickBulkAddWords ==
    /\ req' = [req EXCEPT !.showBulkAdd = ~req.showBulkAdd]
    /\ UNCHANGED <<file, res>>

\* the radio buttons of the bulk-add panel
setBulkMode(mode) ==
    /\ req.showBulkAdd
    /\ req' = [req EXCEPT !.bulkMode = mode]
    /\ UNCHANGED <<file, res>>

\* Cancel inside the bulk-add panel
ClickCancelBulkAdd ==
    /\ req.showBulkAdd
    /\ req' = [req EXCEPT !.showBulkAdd = FALSE]
    /\ UNCHANGED <<file, res>>

\* the button 'Manage Topics' / 'Cancel Topic Management'
ClickManageTopics ==
    /\ req' = IF req.showTopicManagement
              THEN [req EXCEPT !.showTopicManagement = FALSE,
                               !.showAddTopic = FALSE]
              ELSE [req EXCEPT !.showTopicManagement = TRUE]
    /\ UNCHANGED <<file, res>>

\* the button '+ Add New Topic' / 'Cancel' of the topic panel
ClickAddNewTopic ==
    /\ req.showTopicManagement
    /\ req' = [req EXCEPT !.showAddTopic = ~req.showAddTopic]
    /\ UNCHANGED <<file, res>>

InitPanels ==
    /\ file \in InitFiles
    /\ req = PanelsClosed
    /\ res = NoResponse

NextPanels ==
    \/ ClickAddNewWord
    \/ \E i \in DOMAIN readVocabulary : startEdit(readVocabulary[i])
    \/ resetForm
    \/ ClickBulkAddWords
    \/ \E mode \in {"select", "text"} : setBulkMode(mode)
    \/ ClickCancelBulkAdd
    \/ ClickManageTopics
    \/ ClickAddNewTopic

SpecPanels == InitPanels /\ [][NextPanels]_vars

---------------------------------------------------------------------------
(* The text mode of the bulk add of the vocabulary page.  In these runs req *)
(* carries the page's batch: the bodies of its lines, the POSTs that were   *)
(* sent and are not answered yet, what became of the promises, and the      *)
(* alert that was shown.  before is history: the store the batch found.     *)

\* String.prototype.split(sep), sep a character
RECURSIVE splitOnAcc(_, _, _)
splitOnAcc(s, sep, current) ==
    IF s = <<>> THEN <<current>>
    ELSE IF Head(s) = sep
    THEN <<current>> \o splitOnAcc(Tail(s), sep, <<>>)
    ELSE splitOnAcc(Tail(s), sep, Append(current, Head(s)))

splitOn(s, sep) == splitOnAcc(s, sep, <<>>)

\* bulkWords.trim().split('\n').filter(line => line.trim())
bulkLines(bulkWords) ==
    LET Keep(line) == trim(line) # <<>> IN
    filter(splitOn(trim(bulkWords), "\n"), Keep)

\* line.split(':').map(p => p.trim())
lineParts(line) ==
    LET parts == splitOn(line, ":") IN [i \in DOMAIN parts |-> trim(parts[i])]

\* the body a line is posted with (NoRequest for a line of fewer than two
\* parts, whose promise is rejected without a request)
lineBody(line, bulkTopic) ==
    LET parts == lineParts(line) IN
    IF Len(parts) < 2 THEN NoRequest
    ELSE [word |-> parts[1], meaning |-> parts[2],
          phonetic |-> IF Len(parts) < 3 \/ parts[3] = <<>> THEN parts[1]
                       ELSE parts[3],
          topic |-> bulkTopic]

\* the page before 'Add Words' is clicked.  sent holds the lines whose
\* request the server has not handled yet, answered the lines whose response
\* is on its way to the page (with response.ok), fulfilled the lines whose
\* promise is fulfilled; rejected says that a promise is rejected.
BulkIdle ==
    [op |-> "bulk add", lines |-> <<>>, sent |-> {}, answered |-> {},
     fulfilled |-> {}, rejected |-> FALSE, alert |-> "none", before |-> <<>>]

\* a click on 'Add Words' with this text and topic: handleBulkAddText up to
\* await Promise.all, every line's request sent
handleBulkAddText(bulkWords, bulkTopic) ==
    /\ req = BulkIdle
    /\ IF trim(bulkWords) = <<>> \/ trim(bulkTopic) = <<>>
       THEN req' = [req EXCEPT !.alert = "Please enter words and select a topic"]
       ELSE LET lines == bulkLines(bulkWords)
                bodies == [i \in DOMAIN lines |-> lineBody(lines[i], bulkTopic)]
            IN  req' = [req EXCEPT
                          !.lines = bodies,
                          !.sent = {i \in DOMAIN bodies : bodies[i] # NoRequest},
                          !.rejected = \E i \in DOMAIN bodies : bodies[i] = NoRequest,
                          !.before = readVocabulary]
    /\ UNCHANGED <<file, res>>

\* POST /api/vocabulary handles the request of line i and sends its
\* response
BulkPost(i) ==
    LET vocabulary == readVocabulary
        body == req.lines[i]
    IN
    /\ req.op = "bulk add"
    /\ i \in req.sent
    /\ IF Falsy(body.word) \/ Falsy(body.meaning)
       THEN /\ res' = Error(400, "Word and meaning are required")
            /\ UNCHANGED file
       ELSE IF existingWordPost(vocabulary, body.word)
       THEN /\ res' = Error(400, "Word already exists")
            /\ UNCHANGED file
       ELSE /\ Len(vocabulary) < MaxRecords
            /\ getNextId(vocabulary) <= MaxId
            /\ file' = writeVocabulary(
                           Append(vocabulary, newVocabulary(vocabulary, body)))
            /\ res' = [status |-> 201,
                       body |-> newVocabulary(vocabulary, body)]
    /\ req' = [req EXCEPT !.sent = req.sent \ {i},
                          !.answered = req.answered
                              \cup {[line |-> i, ok |-> res'.status = 201]}]

\* the response to the request of a line arrives: the line's callback from
\* its await fetch on, which throws when the response is not ok and returns
\* otherwise
BulkPostResponse(a) ==
    /\ req.op = "bulk add"
    /\ a \in req.answered
    /\ req' = [req EXCEPT !.answered = req.answered \ {a},
                          !.fulfilled = IF a.ok THEN req.fulfilled \cup {a.line}
                                        ELSE req.fulfilled,
                          !.rejected = req.rejected \/ ~a.ok]
    /\ UNCHANGED <<file, res>>

\* await Promise.all(promises) returns or throws: the success path or the
\* catch of handleBulkAddText
BulkSettled ==
    /\ req.op = "bulk add"
    /\ req.lines # <<>>
    /\ req.alert = "none"
    /\ \/ /\ req.rejected
          /\ req' = [req EXCEPT !.alert = "Error"]
       \/ /\ req.fulfilled = DOMAIN req.lines
          /\ req' = [req EXCEPT !.alert = "Successfully added"]
    /\ UNCHANGED <<file, res>>

\* what is typed into the bulk text: one line, two lines, a line and a line
\* without a colon (in either order), a line and a word of SeedRecords, a
\* word twice in two cases, three parts, and blank
BulkTexts ==
    { <<"d", ":", "m">>,
      <<"d", ":", "m", "\n", "f", ":", "n">>,
      <<"d", ":", "m", "\n", "e">>,
      <<"e", "\n", "d", ":", "m">>,
      <<"d", ":", "m", "\n", "a", ":", "n">>,
      <<"d", ":", "m", "\n", "D", ":", "n">>,
      <<"d", ":", " ", "m", ":", "p">>,
      <<" ">> }

BulkTopics == {Str1("t"), <<>>}

InitBulk ==
    /\ file \in InitFiles
    /\ req = BulkIdle
    /\ res = NoResponse

NextBulk ==
    \/ \E bulkWords \in BulkTexts, bulkTopic \in BulkTopics :
           handleBulkAddText(bulkWords, bulkTopic)
    \/ \E i \in DOMAIN req.lines : BulkPost(i)
    \/ \E a \in req.answered : BulkPostResponse(a)
    \/ BulkSettled

SpecBulk == InitBulk /\ [][NextBulk]_vars

---------------------------------------------------------------------------
(* POST /api/quiz, and the quiz page (QuizPage).  In the runs of the page  *)
(* req carries the page: its React state and the continuations that are    *)
(* pending, that is the timers that were set and the fetches that were     *)
(* sent.  A continuation keeps the mode, topic and question of the render  *)
(* whose handler created it.  The responses to the page's fetches are       *)
(* consumed by the step that receives them; res is not used.               *)

\* const isVietnamese = questionType === ... || questionType === ...
isVietnameseOf(questionType) ==
    questionType = "phonetic-to-meaning-text" \/ questionType = "meaning-to-phonetic-text"

\* the response of POST /api/quiz to this body (questionType "" is not given)
quizPostResponse(body) ==
    IF Falsy(body.userAnswer) \/ Falsy(body.correctAnswer) \/ body.questionType = ""
    THEN Error(400, "Missing required fields")
    ELSE [status |-> 200,
          body |-> [isCorrect |-> isAnswerCorrect(body.userAnswer, body.correctAnswer,
                                                  isVietnameseOf(body.questionType)),
                    userAnswer |-> body.userAnswer,
                    correctAnswer |-> body.correctAnswer,
                    isVietnamese |-> isVietnameseOf(body.questionType)]]

\* POST /api/quiz for the pending request
QuizPost ==
    /\ req.op = "POST /quiz"
    /\ res = [status |-> 0]
    /\ res' = quizPostResponse(req.body)
    /\ UNCHANGED <<file, req>>

\* An answer of a POST /api/quiz body has at most MaxPostChars characters of
\* AnswerAlphabet, or is not given.
MaxPostChars == 2

PostAnswers == {UNDEF} \cup UNION {StringsOfLen(k) : k \in 0..MaxPostChars}

\* the question types of the bodies: the four of the generator, and not given
PostQuestionTypes ==
    {"phonetic-to-meaning-text", "meaning-to-phonetic-text",
     "phonetic-to-meaning", "meaning-to-phonetic", ""}

InitQuizPost ==
    /\ file = [parses |-> TRUE, records |-> <<>>]
    /\ \E u \in PostAnswers : \E c \in PostAnswers : \E t \in PostQuestionTypes :
           req = [op |-> "POST /quiz",
                  body |-> [userAnswer |-> u, correctAnswer |-> c, questionType |-> t]]
    /\ res = [status |-> 0]

NextQuizPost == QuizPost

SpecQuizPost == InitQuizPost /\ [][NextQuizPost]_vars

\* The responses GET /api/quiz?mode=&topic= can give the page: those of
\* QuizGet, for every record, coin and draw of the two shuffles.
quizGetResponses(vocabulary, mode, topic) ==
    LET filtered == topicFiltered(vocabulary, topic)
        quizMode == IF mode \in ValidModes THEN mode ELSE "mixed"
        multipleChoice == inputTypeOf(quizMode) = "multiple-choice"
        Coins == IF quizMode \in {"mixed", "mixed-text"} THEN BOOLEAN ELSE {TRUE}
        poolOf(pick, coin) ==
            optionPool(vocabulary, questionTypeOf(quizMode, coin),
                       IF IsPhoneticToMeaning(questionTypeOf(quizMode, coin))
                       THEN filtered[pick + 1].meaning
                       ELSE filtered[pick + 1].phonetic)
        questionsOf(pick, coin) ==
            {generateQuestion(vocabulary, quizMode, topic, pick, coin,
                              poolDraws, optionDraws) :
                poolDraws \in ShuffleDraws(IF multipleChoice
                                           THEN Len(poolOf(pick, coin)) ELSE 0),
                optionDraws \in ShuffleDraws(IF multipleChoice
                                             THEN 1 + Len(slice3(poolOf(pick, coin)))
                                             ELSE 0)}
    IN
    IF Len(vocabulary) = 0
    THEN {Error(400, "No vocabulary available for quiz")}
    ELSE IF Len(filtered) = 0
    THEN {Error(400, noItemsFoundError(topic))}
    ELSE IF Len(vocabulary) < MinVocabulary
    THEN {Error(400, "At least 4 vocabulary items are required for quiz mode")}
    ELSE {IF question = Null
          THEN Error(500, "Failed to generate quiz question")
          ELSE [status |-> 200, body |-> jsonQuestion(question)] :
             question \in UNION {questionsOf(pick, coin) :
                                    pick \in 0..(Len(filtered) - 1), coin \in Coins}}

\* at most this many results are recorded in a run, and one question more
\* is counted
MaxQuestions == 1

\* at most this many continuations are pending at a time
MaxPending == 1

AllTopics == <<"a", "l", "l">>

\* the state useState gives quizState, and resetQuiz gives it again
InitialQuizState ==
    [mode |-> "mixed", currentQuestion |-> Null, results |-> <<>>,
     isFinished |-> FALSE, showFeedback |-> FALSE, selectedAnswer |-> <<>>,
     totalQuestions |-> 0]

\* The page after its construction.  started is history, the mode and topic
\* of the last startQuiz call; no step reads it.
QuizPageMounted ==
    [op |-> "quiz page",
     quizState |-> InitialQuizState,
     loading |-> FALSE,
     vocabularyCount |-> 0,
     availableTopics |-> {},
     selectedTopic |-> AllTopics,
     textAnswer |-> <<>>,
     checkingAnswer |-> FALSE,
     pending |-> {[kind |-> "checkVocabularyCount", mode |-> "mixed",
                   topic |-> AllTopics, question |-> Null, userAnswer |-> <<>>]},
     started |-> [mode |-> "mixed", topic |-> AllTopics]]

\* a continuation created by a handler of the current render
Continuation(kind, mode, userAnswer) ==
    [kind |-> kind, mode |-> mode, topic |-> req.selectedTopic,
     question |-> req.quizState.currentQuestion, userAnswer |-> userAnswer]

\* which of its views the page renders
View ==
    IF req.vocabularyCount < MinVocabulary THEN "not-enough"
    ELSE IF req.quizState.isFinished THEN "finished"
    ELSE IF req.quizState.currentQuestion = Null THEN "mode-select"
    ELSE "question"

\* selectedTopic === 'all' ? '' : `&topic=...`
topicParam(selectedTopic) == IF selectedTopic = AllTopics THEN UNDEF ELSE selectedTopic

\* the answer controls of the question view are rendered (not the spinner)
AnswerControls(inputType) ==
    /\ View = "question"
    /\ ~req.loading
    /\ req.quizState.currentQuestion.inputType = inputType

\* the response to the fetch of checkVocabularyCount arrives
checkVocabularyCount(p) ==
    /\ req.op = "quiz page"
    /\ p \in req.pending /\ p.kind = "checkVocabularyCount"
    /\ req' = [req EXCEPT !.vocabularyCount = Len(readVocabulary),
                          !.availableTopics =
                              {readVocabulary[i].topic : i \in DOMAIN readVocabulary},
                          !.pending = req.pending \ {p}]
    /\ UNCHANGED <<file, res>>

\* the topic select of the mode-select view
setSelectedTopic(topic) ==
    /\ req.op = "quiz page"
    /\ View = "mode-select"
    /\ topic \in {AllTopics} \cup req.availableTopics
    /\ req' = [req EXCEPT !.selectedTopic = topic]
    /\ UNCHANGED <<file, res>>

\* a click on one of the start buttons: startQuiz(mode) up to its await
startQuiz(mode) ==
    /\ req.op = "quiz page"
    /\ View = "mode-select"
    /\ ~req.loading
    /\ Cardinality(req.pending) < MaxPending
    /\ req' = [req EXCEPT !.loading = TRUE,
                          !.pending = req.pending
                              \cup {Continuation("startQuiz", mode, <<>>)},
                          !.started = [mode |-> mode, topic |-> req.selectedTopic]]
    /\ UNCHANGED <<file, res>>

\* startQuiz from its await on
startQuizResponse(p) ==
    /\ req.op = "quiz page"
    /\ p \in req.pending /\ p.kind = "startQuiz"
    /\ \E response \in quizGetResponses(readVocabulary, p.mode, topicParam(p.topic)) :
         req' = IF response.status = 200
                   THEN [req EXCEPT !.quizState =
                                        [mode |-> p.mode,
                                         currentQuestion |-> response.body,
                                         results |-> <<>>,
                                         isFinished |-> FALSE,
                                         showFeedback |-> FALSE,
                                         selectedAnswer |-> <<>>,
                                         totalQuestions |-> 1],
                                    !.loading = FALSE,
                                    !.pending = req.pending \ {p}]
                   ELSE [req EXCEPT !.loading = FALSE,
                                    !.pending = req.pending \ {p}]
    /\ UNCHANGED <<file, res>>

\* the result a handler records for the question of its render
QuizResult(question, selectedAnswer, isCorrect) ==
    [questionId |-> question.id, question |-> question.question,
     selectedAnswer |-> selectedAnswer, correctAnswer |-> question.correctAnswer,
     isCorrect |-> isCorrect, word |-> question.word]

\* a click on an option button
selectAnswer(answer) ==
    /\ req.op = "quiz page"
    /\ AnswerControls("multiple-choice")
    /\ ~req.quizState.showFeedback
    /\ Len(req.quizState.results) < MaxQuestions
    /\ Cardinality(req.pending) < MaxPending
    /\ LET question == req.quizState.currentQuestion
           isCorrect == answer = question.correctAnswer
       IN  req' = [req EXCEPT !.quizState.selectedAnswer = answer,
                              !.quizState.showFeedback = TRUE,
                              !.quizState.results =
                                  Append(req.quizState.results,
                                         QuizResult(question, answer, isCorrect)),
                              !.pending = req.pending
                                  \cup {Continuation("setTimeout", req.quizState.mode,
                                                     <<>>)}]
    /\ UNCHANGED <<file, res>>

\* typing into the text input
setTextAnswer(text) ==
    /\ req.op = "quiz page"
    /\ AnswerControls("text-input")
    /\ ~req.quizState.showFeedback
    /\ ~req.checkingAnswer
    /\ req' = [req EXCEPT !.textAnswer = text]
    /\ UNCHANGED <<file, res>>

\* Submit, or Enter in the input: handleTextAnswerSubmit up to its await
handleTextAnswerSubmit ==
    /\ req.op = "quiz page"
    /\ AnswerControls("text-input")
    /\ ~req.quizState.showFeedback
    /\ ~(trim(req.textAnswer) = <<>> \/ req.checkingAnswer)
    /\ Len(req.quizState.results) < MaxQuestions
    /\ Cardinality(req.pending) < MaxPending
    /\ req' = [req EXCEPT !.checkingAnswer = TRUE,
                          !.pending = req.pending
                              \cup {Continuation("checkAnswer", req.quizState.mode,
                                                 trim(req.textAnswer))}]
    /\ UNCHANGED <<file, res>>

\* handleTextAnswerSubmit from its await on
checkAnswerResponse(p) ==
    /\ req.op = "quiz page"
    /\ p \in req.pending /\ p.kind = "checkAnswer"
    /\ LET response == quizPostResponse([userAnswer |-> p.userAnswer,
                                         correctAnswer |-> p.question.correctAnswer,
                                         questionType |-> p.question.type])
       IN
       req' = IF response.status = 200
                 THEN [req EXCEPT !.quizState.results =
                                      Append(req.quizState.results,
                                             QuizResult(p.question, p.userAnswer,
                                                        response.body.isCorrect)),
                                  !.quizState.showFeedback = TRUE,
                                  !.quizState.selectedAnswer = p.userAnswer,
                                  !.textAnswer = <<>>,
                                  !.checkingAnswer = FALSE,
                                  !.pending = (req.pending \ {p})
                                      \cup {[p EXCEPT !.kind = "setTimeout",
                                                      !.userAnswer = <<>>]}]
                 ELSE [req EXCEPT !.checkingAnswer = FALSE,
                                  !.pending = req.pending \ {p}]
    /\ UNCHANGED <<file, res>>

\* a timer fires: loadNextQuestion, of the render that set it, up to its await
loadNextQuestion(p) ==
    /\ req.op = "quiz page"
    /\ p \in req.pending /\ p.kind = "setTimeout"
    /\ req' = [req EXCEPT !.loading = TRUE,
                          !.pending = (req.pending \ {p})
                              \cup {[p EXCEPT !.kind = "loadNextQuestion"]}]
    /\ UNCHANGED <<file, res>>

\* loadNextQuestion from its await on
loadNextQuestionResponse(p) ==
    /\ req.op = "quiz page"
    /\ p \in req.pending /\ p.kind = "loadNextQuestion"
    /\ req.quizState.totalQuestions < MaxQuestions + 1
    /\ \E response \in quizGetResponses(readVocabulary, p.mode, topicParam(p.topic)) :
         req' = IF response.status = 200
                   THEN [req EXCEPT !.quizState.currentQuestion = response.body,
                                    !.quizState.showFeedback = FALSE,
                                    !.quizState.selectedAnswer = <<>>,
                                    !.quizState.totalQuestions =
                                        req.quizState.totalQuestions + 1,
                                    !.loading = FALSE,
                                    !.pending = req.pending \ {p}]
                   ELSE [req EXCEPT !.loading = FALSE,
                                    !.pending = req.pending \ {p}]
    /\ UNCHANGED <<file, res>>

\* a click on 'Finish Quiz'
finishQuiz ==
    /\ req.op = "quiz page"
    /\ View = "question"
    /\ req' = [req EXCEPT !.quizState.isFinished = TRUE]
    /\ UNCHANGED <<file, res>>

\* a click on the button of the summary that starts over
resetQuiz ==
    /\ req.op = "quiz page"
    /\ View = "finished"
    /\ req' = [req EXCEPT !.quizState = InitialQuizState]
    /\ UNCHANGED <<file, res>>

\* the store of the page runs: four records of one topic with distinct
\* words; two have the same meaning, and the phonetics are two pairs of
\* homophones, so a multiple-choice question has three options, two alike
PageStore ==
    [parses |-> TRUE,
     records |-> << Vocabulary(1, Str1("a"), Str1("m"), Str1("p"), Str1("t")),
                    Vocabulary(2, Str1("b"), Str1("n"), Str1("q"), Str1("t")),
                    Vocabulary(3, Str1("c"), Str1("m"), Str1("p"), Str1("t")),
                    Vocabulary(4, Str1("d"), Str1("s"), Str1("q"), Str1("t")) >>]

\* the start buttons that are clicked: one of each input type
PageModes == {"meaning-to-phonetic", "phonetic-to-meaning-text"}

\* what is typed as an answer: a meaning of the store, and the same in
\* another case
TextAnswers == {Str1("m"), Str1("M")}

InitPage ==
    /\ file = PageStore
    /\ req = QuizPageMounted
    /\ res = NoResponse

NextPage ==
    \/ \E p \in req.pending : checkVocabularyCount(p)
    \/ \E topic \in {AllTopics, Str1("t")} : setSelectedTopic(topic)
    \/ \E mode \in PageModes : startQuiz(mode)
    \/ \E p \in req.pending : startQuizResponse(p)
    \/ \E i \in 1..MinVocabulary :
          /\ req.op = "quiz page"
          /\ AnswerControls("multiple-choice")
          /\ i \in DOMAIN req.quizState.currentQuestion.options
          /\ selectAnswer(req.quizState.currentQuestion.options[i])
    \/ \E text \in TextAnswers : setTextAnswer(text)
    \/ handleTextAnswerSubmit
    \/ \E p \in req.pending : checkAnswerResponse(p)
    \/ \E p \in req.pending : loadNextQuestion(p)
    \/ \E p \in req.pending : loadNextQuestionResponse(p)
    \/ finishQuiz
    \/ resetQuiz

SpecPage == InitPage /\ [][NextPage]_vars

---------------------------------------------------------------------------
(* Properties of the CRUD routes, checked under Spec.  In an action formula *)
(* the unprimed store is the one the request found and req', res' are the   *)
(* request and its response.                                                *)

\* `${id}` of the page's DELETE url: a one-digit id in decimal
toStringId(n) ==
    CASE n = 0 -> Str1("0") [] n = 1 -> Str1("1") [] n = 2 -> Str1("2")
      [] n = 3 -> Str1("3") [] n = 4 -> Str1("4") [] n = 5 -> Str1("5")
      [] n = 6 -> Str1("6") [] n = 7 -> Str1("7") [] n = 8 -> Str1("8")
      [] OTHER -> Str1("9")

StoredIds(vocabulary) == {vocabulary[i].id : i \in DOMAIN vocabulary}

\* C1: a POST /vocabulary whose word equals, ignoring letter case, the word
\* of a stored record is answered 400 and leaves the store unchanged.
C1_DuplicateWordRejected ==
    [][ ( /\ req'.op = "POST /vocabulary"
          /\ \E i \in DOMAIN readVocabulary :
                 toLowerCase(readVocabulary[i].word) = toLowerCase(req'.body.word) )
        => (res'.status = 400 /\ file' = file) ]_vars

\* C1 witness: a POST was rejected as a duplicate of a stored word that
\* differs from the requested one in letter case only.
C1_Witness ==
    /\ req.op = "POST /vocabulary"
    /\ res.status = 400
    /\ res.error = "Word already exists"
    /\ \E i \in DOMAIN readVocabulary :
           /\ readVocabulary[i].word # req.body.word
           /\ toLowerCase(readVocabulary[i].word) = toLowerCase(req.body.word)

\* C2: no two stored records have words that are equal ignoring case, after
\* any sequence of requests from a store whose words are pairwise distinct.
C2_WordsDistinctIgnoringCase ==
    \A i, j \in DOMAIN readVocabulary :
        i # j => toLowerCase(readVocabulary[i].word)
                     # toLowerCase(readVocabulary[j].word)

\* C3: DELETE /vocabulary?id=n with n the id of no stored record is answered
\* 404 and leaves the store unchanged.
C3_DeleteUnknownId ==
    [][ \A n \in 0..(MaxId + 1) :
          ( /\ req'.op = "DELETE /vocabulary"
            /\ req'.id = toStringId(n)
            /\ n \notin StoredIds(readVocabulary) )
          => (res'.status = 404 /\ file' = file) ]_vars

\* C3 witness: a DELETE of an id that a non-empty store does not hold was
\* answered 404.
C3_Witness ==
    /\ req.op = "DELETE /vocabulary"
    /\ res.status = 404
    /\ readVocabulary # <<>>
    /\ \E n \in 1..MaxId :
           req.id = toStringId(n) /\ n \notin StoredIds(readVocabulary)

\* the store after a rename of the topic old to new: that field of those
\* records, and nothing else
RenamedExactly(before, after, old, new) ==
    /\ Len(after) = Len(before)
    /\ \A i \in DOMAIN before :
           /\ after[i].id = before[i].id
           /\ after[i].word = before[i].word
           /\ after[i].meaning = before[i].meaning
           /\ after[i].phonetic = before[i].phonetic
           /\ after[i].topic = IF before[i].topic = old THEN new
                               ELSE before[i].topic

\* C4 as stated: a successful PUT /topics sets topic = newName on the
\* records whose topic was oldName and changes nothing else.
C4_RenameAsStated ==
    [][ (req'.op = "PUT /topics" /\ res'.status = 200)
        => RenamedExactly(readVocabulary, readVocabulary',
                          req'.body.oldName, req'.body.newName) ]_vars

\* C4 amended: a successful PUT /topics sets topic = newName.trim() on the
\* records whose topic was oldName.trim() and changes no other record and
\* no other field; the number, ids and order of the records are unchanged.
C4_RenameTrimmed ==
    [][ (req'.op = "PUT /topics" /\ res'.status = 200)
        => RenamedExactly(readVocabulary, readVocabulary',
                          trim(req'.body.oldName), trim(req'.body.newName)) ]_vars

\* C4 witness: a rename succeeded, two records carry the new topic and
\* another record kept a different one.
C4_Witness ==
    /\ req.op = "PUT /topics"
    /\ res.status = 200
    /\ res.updatedCount = 2
    /\ \E i, j \in DOMAIN readVocabulary :
           /\ readVocabulary[i].topic = trim(req.body.newName)
           /\ readVocabulary[j].topic # trim(req.body.newName)

IdsDistinct(vocabulary) ==
    \A i, j \in DOMAIN vocabulary : i # j => vocabulary[i].id # vocabulary[j].id

\* n is 1 + the maximum id of the store, and 1 for the empty store
IsOneMoreThanMaxId(n, vocabulary) ==
    IF vocabulary = <<>> THEN n = 1
    ELSE /\ (n - 1) \in StoredIds(vocabulary)
         /\ \A k \in StoredIds(vocabulary) : k < n

\* C10: the ids of the stored records are pairwise distinct, and a successful
\* POST /vocabulary assigns 1 + the maximum id of the store it found.
C10_IdsDistinctAndNext ==
    [][ /\ IdsDistinct(readVocabulary)
        /\ IdsDistinct(readVocabulary')
        /\ (req'.op = "POST /vocabulary" /\ res'.status = 201)
           => /\ IsOneMoreThanMaxId(res'.body.id, readVocabulary)
              /\ readVocabulary'[Len(readVocabulary')].id = res'.body.id ]_vars

\* C10 witness: a POST succeeded on a store from which a record had been
\* deleted, so that the new id is not the number of records.
C10_Witness ==
    /\ req.op = "POST /vocabulary"
    /\ res.status = 201
    /\ res.body.id > Len(readVocabulary)
    /\ readVocabulary[Len(readVocabulary)].id = res.body.id

\* C11: a successful POST /vocabulary answers 201 and appends exactly one
\* record, whose word, meaning, phonetic and topic are those of the request
\* and whose id is the next id; the records stored before are unchanged.
C11_PostAppendsRequestRecord ==
    [][ (req'.op = "POST /vocabulary" /\ res'.status \in 200..299)
        => /\ res'.status = 201
           /\ Len(readVocabulary') = Len(readVocabulary) + 1
           /\ SubSeq(readVocabulary', 1, Len(readVocabulary)) = readVocabulary
           /\ LET added == readVocabulary'[Len(readVocabulary')] IN
              /\ added.word = req'.body.word
              /\ added.meaning = req'.body.meaning
              /\ added.phonetic = req'.body.phonetic
              /\ added.topic = req'.body.topic
              /\ IsOneMoreThanMaxId(added.id, readVocabulary) ]_vars

\* the word is the word, ignoring case, of a stored record with another id
UsedByAnotherRecord(vocabulary, word, id) ==
    \E i \in DOMAIN vocabulary :
        /\ vocabulary[i].id # id
        /\ toLowerCase(vocabulary[i].word) = toLowerCase(word)

\* C12: a PUT /vocabulary (with word and meaning given) that names the id of
\* a stored record and a word no other record uses answers 200; afterwards
\* the record with that id holds the word, meaning, phonetic and topic of the
\* request at the same list position and every other record is unchanged.
C12_PutReplacesRequestFields ==
    [][ ( /\ req'.op = "PUT /vocabulary"
          /\ ~Falsy(req'.body.word) /\ ~Falsy(req'.body.meaning)
          /\ req'.body.id \in StoredIds(readVocabulary)
          /\ ~UsedByAnotherRecord(readVocabulary, req'.body.word, req'.body.id) )
        => /\ res'.status = 200
           /\ Len(readVocabulary') = Len(readVocabulary)
           /\ \A i \in DOMAIN readVocabulary :
                 IF readVocabulary[i].id = req'.body.id
                 THEN /\ readVocabulary'[i].id = req'.body.id
                      /\ readVocabulary'[i].word = req'.body.word
                      /\ readVocabulary'[i].meaning = req'.body.meaning
                      /\ readVocabulary'[i].phonetic = req'.body.phonetic
                      /\ readVocabulary'[i].topic = req'.body.topic
                 ELSE readVocabulary'[i] = readVocabulary[i] ]_vars

\* C13 as stated: PUT /vocabulary answers 404 when no stored record has the
\* given id, and 400 when the new word equals, ignoring case, the word of a
\* different stored record; in both cases the store is unchanged.
C13_PutErrorsAsStated ==
    [][ req'.op = "PUT /vocabulary"
        => /\ req'.body.id \notin StoredIds(readVocabulary)
              => (res'.status = 404 /\ file' = file)
           /\ UsedByAnotherRecord(readVocabulary, req'.body.word, req'.body.id)
              => (res'.status = 400 /\ file' = file) ]_vars

\* C13 amended: a PUT /vocabulary lacking id, word or meaning answers 400;
\* one that gives all three answers 404 when no stored record has the id
\* and, when a record has it, 400 when the new word equals, ignoring case,
\* the word of a different stored record; in each case the store is
\* unchanged.
C13_PutErrorsInOrder ==
    [][ req'.op = "PUT /vocabulary"
        => IF req'.body.id = 0 \/ Falsy(req'.body.word) \/ Falsy(req'.body.meaning)
           THEN res'.status = 400 /\ file' = file
           ELSE /\ req'.body.id \notin StoredIds(readVocabulary)
                   => (res'.status = 404 /\ file' = file)
                /\ ( /\ req'.body.id \in StoredIds(readVocabulary)
                     /\ UsedByAnotherRecord(readVocabulary, req'.body.word,
                                            req'.body.id) )
                   => (res'.status = 400 /\ file' = file) ]_vars

\* C13 witness: a PUT that names a stored record was answered 400 because
\* its word differs only in letter case from the word of another record.
C13_Witness ==
    /\ req.op = "PUT /vocabulary"
    /\ res.status = 400
    /\ req.body.id \in StoredIds(readVocabulary)
    /\ \E i \in DOMAIN readVocabulary :
           /\ readVocabulary[i].id # req.body.id
           /\ readVocabulary[i].word # req.body.word
           /\ toLowerCase(readVocabulary[i].word) = toLowerCase(req.body.word)

\* C14: a POST /vocabulary whose word, meaning, phonetic or topic is missing
\* or empty is answered 400 and leaves the store unchanged.
C14_PostIncompleteRejected ==
    [][ ( /\ req'.op = "POST /vocabulary"
          /\ \/ Falsy(req'.body.word)
             \/ Falsy(req'.body.meaning)
             \/ Falsy(req'.body.phonetic)
             \/ Falsy(req'.body.topic) )
        => (res'.status = 400 /\ file' = file) ]_vars

\* s occurs in t as a substring, ignoring letter case
OccursIgnoringCase(s, t) ==
    \E k \in 0..(Len(t) - Len(s)) :
        SubSeq(toLowerCase(t), k + 1, k + Len(s)) = toLowerCase(s)

\* C15: GET /vocabulary?search=s returns, in store order, exactly the stored
\* records in which s occurs, ignoring case, in the word, meaning, phonetic
\* or topic; without a search term it returns all records; GET never
\* changes the store.
C15_SearchOverFourFields ==
    [][ req'.op = "GET /vocabulary"
        => LET s == req'.search
               Occurs(v) == \/ OccursIgnoringCase(s, v.word)
                            \/ OccursIgnoringCase(s, v.meaning)
                            \/ OccursIgnoringCase(s, v.phonetic)
                            \/ OccursIgnoringCase(s, v.topic)
           IN  /\ file' = file
               /\ res'.status = 200
               /\ res'.body = IF Falsy(s) THEN readVocabulary
                              ELSE SelectSeq(readVocabulary, Occurs) ]_vars

HasTopic(vocabulary, topic) ==
    \E i \in DOMAIN vocabulary : vocabulary[i].topic = topic

\* after holds the records of before whose topic is not the given one, in
\* their order and with their contents
RemovedExactly(before, after, topic) ==
    LET Other(v) == v.topic # topic IN after = SelectSeq(before, Other)

\* C16 as stated: DELETE /topics {name} (name given and not blank), when a
\* record has topic name, removes the records with that topic and no other
\* record; when no record has topic name it answers 404 and the store is
\* unchanged.
C16_DeleteTopicAsStated ==
    [][ ( /\ req'.op = "DELETE /topics"
          /\ ~Falsy(req'.body.name) /\ trim(req'.body.name) # <<>> )
        => IF HasTopic(readVocabulary, req'.body.name)
           THEN RemovedExactly(readVocabulary, readVocabulary', req'.body.name)
           ELSE res'.status = 404 /\ file' = file ]_vars

\* C16 amended: DELETE /topics {name} with a missing or blank name answers
\* 400; otherwise, when a record has topic name.trim(), it removes the
\* records with that topic and no other record (the remaining records keep
\* their order and contents), and when no record has topic name.trim() it
\* answers 404; the store is unchanged by the 400 and the 404.
C16_DeleteTopicTrimmed ==
    [][ req'.op = "DELETE /topics"
        => IF Falsy(req'.body.name) \/ trim(req'.body.name) = <<>>
           THEN res'.status = 400 /\ file' = file
           ELSE IF HasTopic(readVocabulary, trim(req'.body.name))
           THEN /\ res'.status = 200
                /\ RemovedExactly(readVocabulary, readVocabulary',
                                  trim(req'.body.name))
           ELSE res'.status = 404 /\ file' = file ]_vars

\* C16 witness: a DELETE /topics with a padded name removed two records and
\* a record of another topic remains.
C16_Witness ==
    /\ req.op = "DELETE /topics"
    /\ res.status = 200
    /\ res.deletedCount = 2
    /\ req.body.name # trim(req.body.name)
    /\ readVocabulary # <<>>
    /\ ~HasTopic(readVocabulary, trim(req.body.name))

\* C17 as stated: PUT /topics {oldName, newName} (both names given) answers
\* 404 when no record has topic oldName, and 400 when some record already
\* has topic newName or the two names are equal after trimming; in each of
\* these cases the store is unchanged.
C17_RenameErrorsAsStated ==
    [][ ( /\ req'.op = "PUT /topics"
          /\ ~Falsy(req'.body.oldName) /\ ~Falsy(req'.body.newName) )
        => /\ ~HasTopic(readVocabulary, req'.body.oldName)
              => (res'.status = 404 /\ file' = file)
           /\ ( \/ HasTopic(readVocabulary, req'.body.newName)
                \/ trim(req'.body.oldName) = trim(req'.body.newName) )
              => (res'.status = 400 /\ file' = file) ]_vars

\* C17 amended: PUT /topics {oldName, newName} answers 400 when a name is
\* missing or empty or the two names are equal after trimming; otherwise
\* 404 when no record has topic oldName.trim(); otherwise 400 when some
\* record already has topic newName.trim(); in each of these cases the
\* store is unchanged.
C17_RenameErrorsInOrder ==
    [][ req'.op = "PUT /topics"
        => IF \/ Falsy(req'.body.oldName) \/ Falsy(req'.body.newName)
              \/ trim(req'.body.oldName) = trim(req'.body.newName)
           THEN res'.status = 400 /\ file' = file
           ELSE IF ~HasTopic(readVocabulary, trim(req'.body.oldName))
           THEN res'.status = 404 /\ file' = file
           ELSE HasTopic(readVocabulary, trim(req'.body.newName))
                => (res'.status = 400 /\ file' = file) ]_vars

\* C17 witness: a rename of a topic that records have was answered 400
\* because other records already have the new topic.
C17_Witness ==
    /\ req.op = "PUT /topics"
    /\ res.status = 400
    /\ ~Falsy(req.body.oldName) /\ ~Falsy(req.body.newName)
    /\ trim(req.body.oldName) # trim(req.body.newName)
    /\ HasTopic(readVocabulary, trim(req.body.oldName))
    /\ HasTopic(readVocabulary, trim(req.body.newName))

\* the number of records that have the topic
CountOfTopic(vocabulary, topic) ==
    Cardinality({i \in DOMAIN vocabulary : vocabulary[i].topic = topic})

RECURSIVE SumOfCounts(_)
SumOfCounts(entries) ==
    IF entries = <<>> THEN 0
    ELSE Head(entries).count + SumOfCounts(Tail(entries))

\* C18: after any sequence of requests, GET /topics returns exactly one
\* {name, count} entry per distinct topic value of the stored records, with
\* count the number of records that have the topic: every topic of a record
\* is listed, no name is listed twice, every count is at least 1 and the
\* counts sum to the number of records.
C18_TopicsListedWithCounts ==
    [][ req'.op = "GET /topics"
        => LET entries == res'.body IN
           /\ res'.status = 200
           /\ file' = file
           /\ \A i \in DOMAIN readVocabulary :
                 \E k \in DOMAIN entries : entries[k].name = readVocabulary[i].topic
           /\ \A k, l \in DOMAIN entries :
                 k # l => entries[k].name # entries[l].name
           /\ \A k \in DOMAIN entries :
                 /\ entries[k].count = CountOfTopic(readVocabulary, entries[k].name)
                 /\ entries[k].count >= 1
           /\ SumOfCounts(entries) = Len(readVocabulary) ]_vars

\* C18 witness: GET /topics listed several topics, one of them with two
\* records, on a store an earlier request had written.
C18_Witness ==
    /\ req.op = "GET /topics"
    /\ Len(res.body) >= 2
    /\ \E k \in DOMAIN res.body : res.body[k].count = 2
    /\ file \notin InitFiles

\* the name is the name of an entry of GET /topics on the store
ListedByTopicsGet(vocabulary, name) ==
    \E k \in DOMAIN topicStats(vocabulary) : topicStats(vocabulary)[k].name = name

\* C19 as stated: POST /topics {name} (name given) never modifies the
\* store; it answers 400 when some stored record has the trimmed name as
\* its topic and otherwise reports success, the name not being listed by
\* GET /topics afterwards.
C19_PostTopicAsStated ==
    [][ (req'.op = "POST /topics" /\ ~Falsy(req'.body.name))
        => /\ file' = file
           /\ IF HasTopic(readVocabulary, trim(req'.body.name))
              THEN res'.status = 400
              ELSE /\ res'.status = 200
                   /\ ~ListedByTopicsGet(readVocabulary', trim(req'.body.name)) ]_vars

\* C19 amended: POST /topics never modifies the store; it answers 400 when
\* the name is missing or blank or when some stored record has the trimmed
\* name as its topic, and otherwise reports success without writing, the
\* name not being listed by GET /topics afterwards.
C19_PostTopicValidated ==
    [][ req'.op = "POST /topics"
        => /\ file' = file
           /\ IF \/ Falsy(req'.body.name) \/ trim(req'.body.name) = <<>>
                 \/ HasTopic(readVocabulary, trim(req'.body.name))
              THEN res'.status = 400
              ELSE /\ res'.status = 200
                   /\ ~ListedByTopicsGet(readVocabulary', trim(req'.body.name)) ]_vars

\* C19 witness: POST /topics reported success for a name that no record of
\* a non-empty store has as its topic.
C19_Witness ==
    /\ req.op = "POST /topics"
    /\ res.status = 200
    /\ readVocabulary # <<>>
    /\ ~HasTopic(readVocabulary, res.topic)
    /\ ~ListedByTopicsGet(readVocabulary, res.topic)

---------------------------------------------------------------------------
(* Properties of the answer checker, checked under SpecAnswer. *)

CharsOf(s) == {s[i] : i \in DOMAIN s}

\* t occurs in s as a block of consecutive characters
IsSubstring(t, s) ==
    \E a \in 1..(Len(s) + 1) : \E b \in (a - 1)..Len(s) : SubSeq(s, a, b) = t

\* C8: isAnswerCorrect returns false, in loose and in exact mode, for every
\* pair of non-empty answers that share no character after normalization.
C8_NoSharedCharacterIsWrong ==
    ( /\ req.op = "isAnswerCorrect"
      /\ res.status = 200
      /\ req.userAnswer # <<>>
      /\ req.correctAnswer # <<>>
      /\ CharsOf(normalizeVietnamese(req.userAnswer))
           \cap CharsOf(normalizeVietnamese(req.correctAnswer)) = {} )
    => res.isCorrect = FALSE

\* C9: in loose mode isAnswerCorrect returns true for every pair of non-empty
\* answers one of which, after normalization, is a substring of the other.
C9_SubstringIsCorrect ==
    ( /\ req.op = "isAnswerCorrect"
      /\ res.status = 200
      /\ res.isVietnamese
      /\ req.userAnswer # <<>>
      /\ req.correctAnswer # <<>>
      /\ \/ IsSubstring(normalizeVietnamese(req.correctAnswer),
                        normalizeVietnamese(req.userAnswer))
         \/ IsSubstring(normalizeVietnamese(req.userAnswer),
                        normalizeVietnamese(req.correctAnswer)) )
    => res.isCorrect = TRUE

\* C9 witness: an accented, capitalised correct answer of one word was
\* accepted for a longer, capitalised user answer that contains it.
C9_Witness ==
    /\ req.op = "isAnswerCorrect"
    /\ res.status = 200
    /\ res.isVietnamese
    /\ res.isCorrect
    /\ req.userAnswer = <<"A", " ", "è">>
    /\ req.correctAnswer = <<"è">>

---------------------------------------------------------------------------
(* Properties of the question generator, checked under SpecQuiz. *)

QuizAnswered == req.op = "GET /quiz" /\ res.status # 0

\* the stored records the topic of the query selects
InTopic(v) == TopicSelects(req.query.topic) => v.topic = req.query.topic

NoneInTopic == \A i \in DOMAIN readVocabulary : ~InTopic(readVocabulary[i])

QuestionTypes ==
    {"phonetic-to-meaning", "meaning-to-phonetic",
     "phonetic-to-meaning-text", "meaning-to-phonetic-text"}

\* C5: GET /quiz answers 400 when the store holds fewer than 4 records or the
\* topic filter matches no record, and 200 with a question (never 500) in
\* every other case.
C5_QuizStatus ==
    QuizAnswered =>
        IF Len(readVocabulary) < 4 \/ NoneInTopic
        THEN res.status = 400
        ELSE res.status = 200 /\ res.body.type \in QuestionTypes

\* C5 witness: three records, one of them in the requested topic, and the
\* answer is 400.
C5_Witness ==
    /\ QuizAnswered
    /\ res.status = 400
    /\ Len(readVocabulary) = 3
    /\ TopicSelects(req.query.topic)
    /\ ~NoneInTopic

\* the question q is keyed to the record v
KeyedTo(q, v) ==
    /\ q.id = v.id
    /\ q.word = v.word
    /\ IF q.type \in {"phonetic-to-meaning", "phonetic-to-meaning-text"}
       THEN q.question = v.phonetic /\ q.correctAnswer = v.meaning
       ELSE q.question = v.meaning /\ q.correctAnswer = v.phonetic

\* C6: every generated question is keyed to one stored record of the
\* requested topic: its id and word are that record's, and question and
\* correctAnswer are its phonetic and meaning in the order of the type.
C6_QuestionKeyedToTopicRecord ==
    (QuizAnswered /\ res.status = 200) =>
        \E i \in DOMAIN readVocabulary :
            InTopic(readVocabulary[i]) /\ KeyedTo(res.body, readVocabulary[i])

\* C6 witness: a multiple-choice question for a topic, one of whose options
\* is a value of no record of that topic (a distractor from outside).
C6_Witness ==
    /\ QuizAnswered
    /\ res.status = 200
    /\ TopicSelects(req.query.topic)
    /\ res.body.inputType = "multiple-choice"
    /\ \E k \in DOMAIN res.body.options :
           \A i \in DOMAIN readVocabulary :
               InTopic(readVocabulary[i]) =>
                   /\ readVocabulary[i].meaning # res.body.options[k]
                   /\ readVocabulary[i].phonetic # res.body.options[k]

\* C7: for a store of at least 4 records and a multiple-choice mode, the
\* options of the generated question are exactly 4 and contain correctAnswer.
C7_FourOptionsWithAnswer ==
    ( /\ QuizAnswered
      /\ res.status = 200
      /\ Len(readVocabulary) >= 4
      /\ res.body.inputType = "multiple-choice" )
    => /\ Len(res.body.options) = 4
       /\ \E k \in DOMAIN res.body.options :
              res.body.options[k] = res.body.correctAnswer

\* C30: for every store with at least 4 records, the options of a generated
\* multiple-choice question are pairwise distinct strings, and correctAnswer
\* occurs among them exactly once.
C30_OptionsDistinct ==
    ( /\ req.op = "GET /quiz" /\ res.status = 200
      /\ Len(readVocabulary) >= MinVocabulary
      /\ res.body.inputType = "multiple-choice" )
    => LET options == res.body.options IN
       /\ \A i, j \in DOMAIN options : i # j => options[i] # options[j]
       /\ Cardinality({i \in DOMAIN options :
                          options[i] = res.body.correctAnswer}) = 1

---------------------------------------------------------------------------
(* Properties of the routes on a missing or corrupt file, checked under     *)
(* SpecMissing.                                                            *)

\* C21: when the store file is missing or does not parse, no request fails
\* (no 500); GET /vocabulary answers 200 with an empty array, GET /quiz
\* answers 400, both without writing, and a successful POST /vocabulary
\* leaves a store that holds only the new record, with id 1.
C21_MissingFileIsEmpty ==
    [][ ~file.parses
        => /\ res'.status # 500
           /\ req'.op = "GET /vocabulary"
              => (res'.status = 200 /\ res'.body = <<>> /\ file' = file)
           /\ req'.op = "GET /quiz"
              => (res'.status = 400 /\ file' = file)
           /\ (req'.op = "POST /vocabulary" /\ res'.status = 201)
              => /\ file'.parses
                 /\ Len(file'.records) = 1
                 /\ file'.records[1] = res'.body
                 /\ file'.records[1].id = 1
                 /\ file'.records[1].word = trim(req'.body.word) ]_vars

\* C21 witness: the first request on the missing file was a POST, answered
\* 201; the file now parses and holds only the new record, with id 1.
C21_Witness ==
    /\ req.op = "POST /vocabulary"
    /\ res.status = 201
    /\ res.body.id = 1
    /\ file.parses
    /\ file.records = <<res.body>>

---------------------------------------------------------------------------
(* Properties of the vocabulary page, checked under SpecPanels. *)

\* C22: after any sequence of clicks on 'Add New Word', 'Bulk Add Words',
\* 'Manage Topics', Edit and Cancel, at most one of the add/edit form, the
\* bulk-add panel and the topic-management panel is shown.
C22_PanelsMutuallyExclusive ==
    /\ ~(req.showAddForm /\ req.showBulkAdd)
    /\ ~(req.showAddForm /\ req.showTopicManagement)
    /\ ~(req.showBulkAdd /\ req.showTopicManagement)

---------------------------------------------------------------------------
(* Properties of the ids over a run of requests, checked under Spec.  The   *)
(* unprimed req and res are the request before the step's and its response. *)

\* C24: ids are assigned monotonically over creates and deletes, so the id of
\* a record that was deleted is never assigned again: when the request before
\* a successful POST was a successful DELETE, the POST does not assign the id
\* that was deleted.
C24_DeletedIdNotReused ==
    [][ ( /\ req.op = "DELETE /vocabulary" /\ res.status = 200
          /\ req'.op = "POST /vocabulary" /\ res'.status = 201 )
        => res'.body.id # parseInt(req.id) ]_vars

---------------------------------------------------------------------------
(* Properties of the stored strings, checked under SpecStrings. *)

\* C28: after any sequence of successful POST /vocabulary and PUT /vocabulary
\* requests with arbitrary request strings, every stored record has a
\* non-empty word and a non-empty meaning.
C28_StoredWordAndMeaningNonEmpty ==
    \A i \in DOMAIN readVocabulary :
        /\ ~Falsy(readVocabulary[i].word)
        /\ ~Falsy(readVocabulary[i].meaning)

---------------------------------------------------------------------------
(* Properties of the bulk add, checked under SpecBulk. *)

\* C29: a text-mode bulk add is all-or-nothing: when handleBulkAddText has
\* reported an error for the batch, the store is the one the batch found, so
\* none of the batch's words has been added.
C29_BulkAddAllOrNothing ==
    (req.op = "bulk add" /\ req.alert = "Error") => readVocabulary = req.before

---------------------------------------------------------------------------
(* Properties of POST /api/quiz, checked under SpecQuizPost. *)

\* C25: POST /quiz grades a phonetic answer (questionType
\* meaning-to-phonetic-text) by equality of the normalized strings, and a
\* meaning answer (phonetic-to-meaning-text) by the flexible matching.  (Stated
\* for two answers that do not normalize to the empty string.)
C25_PhoneticGradedExactly ==
    ( /\ req.op = "POST /quiz" /\ res.status = 200
      /\ normalizeVietnamese(req.body.userAnswer) # <<>>
      /\ normalizeVietnamese(req.body.correctAnswer) # <<>> )
    => /\ req.body.questionType = "meaning-to-phonetic-text"
          => res.body.isCorrect
             = (normalizeVietnamese(req.body.userAnswer)
                = normalizeVietnamese(req.body.correctAnswer))
       /\ req.body.questionType = "phonetic-to-meaning-text"
          => res.body.isCorrect
             = isAnswerCorrect(req.body.userAnswer, req.body.correctAnswer, TRUE)

---------------------------------------------------------------------------
(* Properties of the quiz page, checked under SpecPage.  In an action      *)
(* formula the unprimed page is the one before the step.                   *)

\* the step received the response of a fetch of this kind
Received(kind) == \E p \in req.pending \ req'.pending : p.kind = kind

\* the step put a question (another one, or one where none was) on display
DisplaysQuestion ==
    /\ View' = "question"
    /\ \/ View # "question"
       \/ req'.quizState.totalQuestions # req.quizState.totalQuestions

\* C23: the quiz page moves only along mode-select, question, feedback, next
\* question, finished summary: a question comes on display only by startQuiz
\* from mode-select or by the load that follows the feedback to an answer to
\* the previous question; a result is recorded only for a question that was
\* displayed and has none yet; and the summary is left only by resetQuiz, to
\* mode-select with empty results.
C23_QuizFlow ==
    [][ /\ DisplaysQuestion
           => \/ View = "mode-select" /\ Received("startQuiz")
              \/ /\ View = "question" /\ req.quizState.showFeedback
                 /\ Received("loadNextQuestion")
        /\ Len(req'.quizState.results) > Len(req.quizState.results)
           => /\ ~req.quizState.showFeedback
              /\ Len(req'.quizState.results) = Len(req.quizState.results) + 1
              /\ Len(req'.quizState.results) <= req'.quizState.totalQuestions
        /\ (View = "finished" /\ View' # "finished")
           => /\ View' = "mode-select"
              /\ req'.quizState = InitialQuizState ]_vars

\* the feedback of the question view says 'Correct'
ShowsCorrect == req.quizState.selectedAnswer = req.quizState.currentQuestion.correctAnswer

\* C26: for a text-input answer, the feedback shown on the page agrees with
\* the isCorrect that POST /quiz returned and that the results list records
\* for the question.
C26_TextFeedbackAgrees ==
    LET results == req.quizState.results
        question == req.quizState.currentQuestion
    IN
    ( /\ req.op = "quiz page"
      /\ View = "question"
      /\ question.inputType = "text-input"
      /\ req.quizState.showFeedback
      /\ results # <<>>
      /\ results[Len(results)].questionId = question.id
      /\ results[Len(results)].selectedAnswer = req.quizState.selectedAnswer )
    => /\ results[Len(results)].isCorrect
          = quizPostResponse([userAnswer |-> req.quizState.selectedAnswer,
                              correctAnswer |-> question.correctAnswer,
                              questionType |-> question.type]).body.isCorrect
       /\ ShowsCorrect = results[Len(results)].isCorrect

\* C27: under any interleaving of answer clicks, the timer of the next
\* question, finishQuiz, resetQuiz, the topic select and startQuiz, a question
\* that comes on display was requested with the mode and the topic of the
\* most recent startQuiz, and loadNextQuestion loads no question while the
\* page is in mode-select.
C27_QuestionsOfTheStartedQuiz ==
    [][ \A p \in req.pending \ req'.pending :
          ( /\ p.kind \in {"startQuiz", "loadNextQuestion"}
            /\ req'.quizState.totalQuestions # req.quizState.totalQuestions )
          => /\ p.mode = req.started.mode
             /\ p.topic = req.started.topic
             /\ p.kind = "loadNextQuestion" => View # "mode-select" ]_vars

---------------------------------------------------------------------------
(* Properties of two mutation requests in flight, checked under SpecRace. *)

RaceSuccess == {200, 201}

\* the store a request's handler computes from the collection it read, and
\* from nothing else
OwnChange(request) ==
    IF request.op = "POST /vocabulary"
    THEN Append(request.vocabulary,
                Vocabulary(IF request.vocabulary = <<>> THEN 1
                           ELSE MaxOf(StoredIds(request.vocabulary)) + 1,
                           trim(request.body.word), trim(request.body.meaning),
                           UNDEF, UNDEF))
    ELSE LET Other(v) == v.topic # trim(request.body.name)
         IN  SelectSeq(request.vocabulary, Other)

\* C20: two mutation requests can race on the file.  When a request writes
\* its data successfully after another request that had read the same
\* collection has answered success, the two were handled by different
\* processes, the earlier writer's success response stands, and the store
\* afterwards is the collection read with the later writer's change only,
\* the earlier writer's change being lost; the one exception is a file that
\* no longer parses, left when the earlier writer's longer text was written
\* after the later writer had opened the file.
C20_LaterWriteWins ==
    [][ \A r, o \in Requests :
          ( /\ r # o
            /\ req[r].pc = "opened" /\ req'[r].pc = "done"
            /\ res'[r].status \in RaceSuccess
            /\ req[o].pc = "done"
            /\ res[o].status \in RaceSuccess
            /\ req[o].vocabulary = req[r].vocabulary )
          => /\ req[r].proc # req[o].proc
             /\ res'[o] = res[o]
             /\ IF file'.parses
                THEN readVocabulary' = OwnChange(req[r])
                ELSE /\ file.records = OwnChange(req[o])
                     /\ textLength(OwnChange(req[o]))
                            > textLength(OwnChange(req[r])) ]_vars

\* C20 witness: two POSTs of different words read the same collection and
\* were both answered 201 (with the same id); the store holds one record
\* more than was read, the later writer's, and not the earlier writer's.
C20_Witness ==
    \E r, o \in Requests :
        /\ r # o
        /\ req[r].op = "POST /vocabulary" /\ req[o].op = "POST /vocabulary"
        /\ req[r].pc = "done" /\ req[o].pc = "done"
        /\ res[r].status = 201 /\ res[o].status = 201
        /\ req[r].vocabulary = req[o].vocabulary
        /\ res[r].body.word # res[o].body.word
        /\ res[r].body.id = res[o].body.id
        /\ file.parses
        /\ readVocabulary = Append(req[r].vocabulary, res[r].body)
        /\ \A i \in DOMAIN readVocabulary : readVocabulary[i] # res[o].body

====
